---- MODULE Spec2Model ----
(***************************************************************************)
(* The NL2SQL orchestration graph (graphs/base_graph.py) with its nodes,   *)
(* the per-session context memory (graphs/utils/context_memory.py), the    *)
(* SQL sandbox (tools/sandbox.py) and the database client (tools/db.py).   *)
(*                                                                         *)
(* Texts (questions, SQL, language-model responses) are sequences of       *)
(* atoms; an atom is an indivisible piece of text (a keyword, a word, a    *)
(* number, a blank, a line break, a punctuation mark).  The text           *)
(* functions of the source are translated onto atom sequences.             *)
(* Python's None is the empty option <<>>; a present value v is <<v>>.     *)
(***************************************************************************)
EXTENDS Integers, Sequences, FiniteSets, TLC

VARIABLES
    pc,             \* the node the graph runs next ("idle" outside a run)
    state,          \* the NL2SQLState dict threaded through the nodes
    memory,         \* ContextMemoryManager.conversation_history of the session
    sandboxEnabled, \* sandbox_config["enabled"]
    driverCalls,    \* SQL texts handed to cursor.execute in this run
    executions,     \* how often execute_sql_node ran in this run (saturating)
    routes,         \* the conditional-edge decisions taken in this run
    calls,          \* the run_query calls made on the session so far
    asked,          \* the clarification questions clarify_node emitted on the session
    added,          \* the entries handed to the add operations of a manager, in order
    maxHistory,     \* max_history of that manager
    lastErrors,     \* the error list computed by the last validate_sql_node
    inQuestion,     \* the question argument of this run_query call
    inAnswer,       \* the clarification_answer argument of this run_query call
    _context_managers, \* the module's dict of managers, session id -> object
    heap,           \* the ContextMemoryManager objects built so far
    callers,        \* the concurrent callers of the context memory module
    call            \* a function applied on its own: its arguments and its result

vars == <<pc, state, memory, sandboxEnabled, driverCalls, executions, routes,
          lastErrors, inQuestion, inAnswer, calls, asked, added, maxHistory,
                   _context_managers, heap, callers, call>>

----------------------------------------------------------------------------
(* Bounds of the model *)

RunCap == 2

\* the run_query calls explored on one session
MaxCalls == 2

\* the add operations explored on one context memory, and the largest
\* max_history it is built with
MaxAdds == 4
MaxLimit == 3

(* Program constants *)

MaxRegenerations == 3
MaxClarifications == 3
MaxHistory == 10
MaxRows == 1000
DefaultLimit == 200
FetchLimit == 100

----------------------------------------------------------------------------
(* Options and truthiness *)

None == <<>>
Some(v) == <<v>>

\* Python truthiness of an Optional[str]: neither None nor ""
Truthy(o) == o # None /\ o[1] # <<>>

\* Python truthiness of an Optional[bool]
IsTrue(o) == o # None /\ o[1] = TRUE

Min(a, b) == IF a <= b THEN a ELSE b

Contains(text, atoms) == \E i \in 1..Len(text) : text[i] \in atoms

RECURSIVE IndexFrom(_, _, _)
\* the first index >= i of text holding an atom of atoms, 0 if none
IndexFrom(text, atoms, i) ==
    IF i > Len(text) THEN 0
    ELSE IF text[i] \in atoms THEN i
    ELSE IndexFrom(text, atoms, i + 1)

Blank == {" ", "\n"}

RECURSIVE FirstNonBlank(_, _)
\* the first index >= i of text holding no blank, 0 if none
FirstNonBlank(text, i) ==
    IF i > Len(text) THEN 0
    ELSE IF text[i] \notin Blank THEN i
    ELSE FirstNonBlank(text, i + 1)

RECURSIVE LStrip(_)
LStrip(text) ==
    IF text # <<>> /\ Head(text) \in Blank THEN LStrip(Tail(text)) ELSE text

RECURSIVE RStrip(_)
RStrip(text) ==
    IF text # <<>> /\ text[Len(text)] \in Blank
    THEN RStrip(SubSeq(text, 1, Len(text) - 1)) ELSE text

Strip(text) == LStrip(RStrip(text))

----------------------------------------------------------------------------
(* check_if_needs_clarification (graphs/nodes/clarify.py).                 *)
(* The question atoms are keywords of the source's lists, written in       *)
(* pinyin, and neutral words; "(" and ")" are the full-width parentheses.  *)
(* Each set below holds the atoms that contain, as a substring, a keyword  *)
(* of the corresponding list of the source: zuijin (recent), yue (month),  *)
(* zuijin_yige_yue (the last month), riqi (date, contains ri, day),        *)
(* tongji (tally), chaxun (query), shuliang (quantity), kehu (customer),   *)
(* fapiao (invoice), xinxi (information), shenme (what), xiaoshou (sales), *)
(* zuihao (best).                                                          *)

QuestionAtoms ==
    {"q", "a", "x", "zuijin", "yue", "zuijin_yige_yue", "riqi", "tongji", "chaxun", "shuliang",
     "kehu", "fapiao", "xinxi", "shenme", "xiaoshou", "zuihao", "(", ")"}

ExplicitTimeAtoms == {"yue", "zuijin_yige_yue", "riqi"}
ExplicitAggregationAtoms == {"shuliang"}
ExplicitFieldAtoms == {"riqi", "shuliang", "kehu", "fapiao"}

TimeRangeFires(question) ==
    /\ Contains(question, {"zuijin", "zuijin_yige_yue", "riqi"})
    /\ ~Contains(question, ExplicitTimeAtoms)

AggregationFires(question) ==
    /\ Contains(question, {"tongji", "chaxun"})
    /\ ~Contains(question, ExplicitAggregationAtoms)
    /\ ~(Contains(question, {"chaxun"}) /\ Contains(question, ExplicitFieldAtoms))

FieldFires(question) ==
    /\ Contains(question, {"xinxi"})
    /\ ~(Contains(question, ExplicitFieldAtoms) \/ Contains(question, {"shenme"}))
    /\ ~(\/ Contains(question, ExplicitTimeAtoms)
         \/ Contains(question, ExplicitAggregationAtoms)
         \/ Contains(question, {"kehu", "fapiao", "xiaoshou"}))

AmbiguityFires(question) == Contains(question, {"zuihao"})

check_if_needs_clarification(question) ==
    LET reasons ==
            (IF TimeRangeFires(question) THEN <<"time_range">> ELSE <<>>)
            \o (IF AggregationFires(question) THEN <<"aggregation">> ELSE <<>>)
            \o (IF FieldFires(question) THEN <<"field">> ELSE <<>>)
            \o (IF AmbiguityFires(question) THEN <<"ambiguity">> ELSE <<>>)
    IN
    [needs_clarification |-> Len(reasons) > 0,
     reasons |-> reasons,
     clarification_type |-> IF reasons = <<>> THEN "general" ELSE reasons[1]]

\* ContextMemoryManager.check_needs_clarification: the history inspection
\* changes nothing, the result of check_if_needs_clarification is returned
check_needs_clarification(question) == check_if_needs_clarification(question)

----------------------------------------------------------------------------
(* parse_clarification_response (graphs/nodes/clarify.py): the question    *)
(* part.  Response atoms: the question header "wenti:", the options        *)
(* header "xuanxiang:", words, blanks and line breaks.                     *)

\* group(1) of  wenti[:]\s*(.+?)(?:\n|xuanxiang|$)  on the text after the header:
\* \s* takes the leading blanks, (.+?) takes at least one atom and then runs
\* to the first terminator; when only blanks follow the header, \s* gives
\* the last blank back to (.+?)
CapturedQuestion(rest) ==
    LET body == LStrip(rest) IN
    IF body # <<>>
    THEN LET stop == IndexFrom(body, {"\n", "xuanxiang:"}, 2) IN
         IF stop = 0 THEN body ELSE SubSeq(body, 1, stop - 1)
    ELSE <<rest[Len(rest)]>>

ParseClarificationQuestion(response) ==
    LET h == IndexFrom(response, {"wenti:"}, 1) IN
    IF h = 0 \/ h = Len(response)
    THEN <<"qing_tigong_gengduo_xinxi">>
    ELSE Strip(CapturedQuestion(SubSeq(response, h + 1, Len(response))))

----------------------------------------------------------------------------
(* SQL and response texts.  Atoms: SQL words and numbers (the characters   *)
(* of \w), blanks, and the marks ";", "--", "/*", "*/", "*", "'f'" (a      *)
(* quoted string), "{" and "}", and the markdown code fences: "FENCE_SQL"   *)
(* is three backticks followed by sql, "FENCE" is three backticks.         *)

NumVal == [a \in {"0", "5", "50", "200", "1000", "5000"} |->
             CASE a = "0" -> 0 [] a = "5" -> 5 [] a = "50" -> 50
               [] a = "200" -> 200 [] a = "1000" -> 1000 [] OTHER -> 5000]

NumAtom(n) == CHOOSE a \in DOMAIN NumVal : NumVal[a] = n

DmlAtoms == {"drop", "delete", "update", "insert", "alter", "create", "truncate",
             "exec", "execute"}

ForbiddenKeywordAtoms ==
    {"insert", "update", "delete", "drop", "alter", "truncate", "create", "grant",
     "revoke", "rename", "replace", "sleep", "benchmark", "exec", "execute", "call",
     "procedure", "function", "lock", "unlock", "flush", "kill", "shutdown",
     "information_schema", "mysql", "sys", "performance_schema"}

WordAtoms ==
    {"select", "from", "t", "c", "limit", "into", "outfile", "union", "load", "data",
     "load_file", "sorry"} \cup ForbiddenKeywordAtoms \cup DmlAtoms \cup (DOMAIN NumVal)

\* text.find(mark, start): the first index >= start holding mark, 0 if none
Find(text, mark, start) == IndexFrom(text, {mark}, start)

\* response[start:end] of the fence branches, where end = find(fence, start)
\* and a missing closing fence gives end = -1, dropping the last piece
Fenced(response, open) ==
    LET close == IndexFrom(response, {"FENCE", "FENCE_SQL"}, open + 1)
        last == IF close = 0 THEN Len(response) - 1 ELSE close - 1
    IN  SubSeq(response, open + 1, last)

\* extract_sql_from_response: [sql, is_valid_sql]
extract_sql_from_response(response) ==
    LET sqlFence == Find(response, "FENCE_SQL", 1)
        anyFence == IndexFrom(response, {"FENCE", "FENCE_SQL"}, 1)
        sql == IF sqlFence # 0 THEN Strip(Fenced(response, sqlFence))
               ELSE IF anyFence # 0 THEN Strip(Fenced(response, anyFence))
               ELSE Strip(response)
        is_valid_sql == Contains(sql, {"select"}) /\ Contains(sql, {"from"})
        has_chat_indicators == Contains(sql, {"sorry"})
    IN  IF has_chat_indicators \/ ~is_valid_sql
        THEN [sql |-> Strip(response), is_valid_sql |-> FALSE]
        ELSE [sql |-> IF sql[Len(sql)] = ";" THEN sql ELSE sql \o <<";">>,
              is_valid_sql |-> TRUE]

RECURSIVE RemoveLineComments(_, _)
\* re.sub(r'--.*?$', '', sql, flags=re.MULTILINE): inComment is TRUE from a
\* "--" to the end of its line
RemoveLineComments(text, inComment) ==
    IF text = <<>> THEN <<>>
    ELSE IF Head(text) = "\n" THEN <<"\n">> \o RemoveLineComments(Tail(text), FALSE)
    ELSE IF inComment \/ Head(text) = "--" THEN RemoveLineComments(Tail(text), TRUE)
    ELSE <<Head(text)>> \o RemoveLineComments(Tail(text), FALSE)

RECURSIVE RemoveBlockComments(_)
\* re.sub(r'/\*.*?\*/', '', sql, flags=re.DOTALL)
RemoveBlockComments(text) ==
    LET open == Find(text, "/*", 1)
        close == IF open = 0 THEN 0 ELSE Find(text, "*/", open + 1)
    IN  IF close = 0 THEN text
        ELSE SubSeq(text, 1, open - 1)
             \o RemoveBlockComments(SubSeq(text, close + 1, Len(text)))

CleanSql(sql) == Strip(RemoveBlockComments(RemoveLineComments(sql, FALSE)))

\* ;\s*(drop|delete|...)
StatementThenDml(text) ==
    \E i, j \in 1..Len(text) :
        /\ i < j
        /\ text[i] = ";" /\ text[j] \in DmlAtoms
        /\ \A k \in (i + 1)..(j - 1) : text[k] \in Blank

\* the dangerous patterns of check_sql_safety, searched in the statement
\* without its comments
DangerousPattern(text) ==
    LET \* first \s+ second  occurs in text
        BlankSeparated(first, second) ==
            \E i, j \in 1..Len(text) :
                /\ i + 1 < j
                /\ text[i] = first /\ text[j] = second
                /\ \A k \in (i + 1)..(j - 1) : text[k] \in Blank
        \* union\s+.*select  with re.DOTALL
        UnionSelect ==
            \E i, j \in 1..Len(text) :
                /\ i + 1 < j
                /\ text[i] = "union" /\ text[i + 1] \in Blank /\ text[j] = "select"
        \* /\*.*\*/
        BlockCommentLeft ==
            \E i, j \in 1..Len(text) : i < j /\ text[i] = "/*" /\ text[j] = "*/"
        \* --\s
        LineCommentLeft ==
            \E i \in 1..(Len(text) - 1) : text[i] = "--" /\ text[i + 1] \in Blank
        \* load_file\s*\(
        LoadFileCall ==
            \E i \in 1..Len(text) :
                /\ text[i] = "load_file"
                /\ FirstNonBlank(text, i + 1) # 0
                /\ text[FirstNonBlank(text, i + 1)] = "("
    IN  \/ StatementThenDml(text)
        \/ UnionSelect
        \/ BlockCommentLeft
        \/ LineCommentLeft
        \/ BlankSeparated("into", "outfile")
        \/ BlankSeparated("load", "data")
        \/ LoadFileCall

\* a keyword of the default forbidden list occurs as a word
ForbiddenKeyword(text) ==
    LET \* \bkeyword\b
        WholeWord(keywords) ==
            \E i \in 1..Len(text) :
                /\ text[i] \in keywords
                /\ (i = 1 \/ text[i - 1] \notin WordAtoms)
                /\ (i = Len(text) \/ text[i + 1] \notin WordAtoms)
        \* \bfirst second\b  for the two-word keywords
        WholePhrase(first, second) ==
            \E i \in 1..(Len(text) - 2) :
                text[i] = first /\ text[i + 1] = " " /\ text[i + 2] = second
    IN  \/ WholeWord(ForbiddenKeywordAtoms)
        \/ WholePhrase("into", "outfile")
        \/ WholePhrase("load", "data")

\* the forbidden keywords are looked for before the dangerous patterns
check_sql_safety_keywords_first(sql) ==
    LET sql_clean == CleanSql(sql) IN
    IF Strip(sql) = <<>>
    THEN [ok |-> FALSE, code |-> Some("SANDBOX_EMPTY_SQL")]
    ELSE IF sql_clean = <<>> \/ Head(sql_clean) # "select"
    THEN [ok |-> FALSE, code |-> Some("SANDBOX_NON_SELECT")]
    ELSE IF ForbiddenKeyword(sql_clean)
    THEN [ok |-> FALSE, code |-> Some("SANDBOX_FORBIDDEN_KEYWORD")]
    ELSE IF DangerousPattern(sql_clean)
    THEN [ok |-> FALSE, code |-> Some("SANDBOX_DANGEROUS_PATTERN")]
    ELSE [ok |-> TRUE, code |-> None]

\* check_sql_safety with the default forbidden keyword list
check_sql_safety(sql) ==
    LET sql_clean == CleanSql(sql) IN
    IF Strip(sql) = <<>>
    THEN [ok |-> FALSE, code |-> Some("SANDBOX_EMPTY_SQL")]
    ELSE IF sql_clean = <<>> \/ Head(sql_clean) # "select"
    THEN [ok |-> FALSE, code |-> Some("SANDBOX_NON_SELECT")]
    ELSE IF DangerousPattern(sql_clean)
    THEN [ok |-> FALSE, code |-> Some("SANDBOX_DANGEROUS_PATTERN")]
    ELSE IF ForbiddenKeyword(sql_clean)
    THEN [ok |-> FALSE, code |-> Some("SANDBOX_FORBIDDEN_KEYWORD")]
    ELSE [ok |-> TRUE, code |-> None]

----------------------------------------------------------------------------
(* Row limiting (tools/sandbox.py) *)

\* the index of the number that ends a match of  limit\s+\d+  starting at
\* index i, 0 if there is no match at i
LimitMatchEnd(text, i) ==
    IF text[i] # "limit" THEN 0
    ELSE LET j == FirstNonBlank(text, i + 1)
         IN  IF j > i + 1 /\ text[j] \in (DOMAIN NumVal) THEN j ELSE 0

RECURSIVE FirstLimit(_, _)
FirstLimit(text, i) ==
    IF i > Len(text) THEN None
    ELSE IF LimitMatchEnd(text, i) # 0 THEN Some(NumVal[text[LimitMatchEnd(text, i)]])
    ELSE FirstLimit(text, i + 1)

extract_limit(sql) == FirstLimit(sql, 1)

RECURSIVE ReplaceLimits(_, _, _)
\* re.sub(r'limit\s+\d+', 'LIMIT n', sql, flags=re.IGNORECASE), from index i
ReplaceLimits(text, n, i) ==
    IF i > Len(text) THEN <<>>
    ELSE IF LimitMatchEnd(text, i) # 0
    THEN <<"limit", " ", NumAtom(n)>> \o ReplaceLimits(text, n, LimitMatchEnd(text, i) + 1)
    ELSE <<text[i]>> \o ReplaceLimits(text, n, i + 1)

RECURSIVE RStripSemicolons(_)
RStripSemicolons(text) ==
    IF text # <<>> /\ text[Len(text)] = ";"
    THEN RStripSemicolons(SubSeq(text, 1, Len(text) - 1)) ELSE text

\* ensure_limit: the statement itself if  " limit " in sql.strip().lower()
ensure_limit(sql, default_limit) ==
    IF LET s == Strip(sql)
       IN  \E i \in 2..(Len(s) - 1) : s[i - 1] = " " /\ s[i] = "limit" /\ s[i + 1] = " "
    THEN sql
    ELSE RStripSemicolons(RStrip(sql)) \o <<" ", "limit", " ", NumAtom(default_limit), ";">>

\* apply_row_limit: [sql, effective_limit]; a limit of 0 is falsy
apply_row_limit(sql, max_rows, default_limit) ==
    LET existing_limit == extract_limit(sql) IN
    IF existing_limit # None /\ existing_limit[1] # 0
    THEN [sql |-> ReplaceLimits(sql, Min(existing_limit[1], max_rows), 1),
          effective_limit |-> Min(existing_limit[1], max_rows)]
    ELSE [sql |-> ensure_limit(sql, Min(default_limit, max_rows)),
          effective_limit |-> Min(default_limit, max_rows)]

----------------------------------------------------------------------------
(* DatabaseClient.query (tools/db.py) *)

\* config.get_sandbox_config(): enabled, max_rows, default_limit; the
\* forbidden keyword list is left to check_sql_safety's default
get_sandbox_config(enabled) ==
    [enabled |-> enabled, max_rows |-> MaxRows, default_limit |-> DefaultLimit]

QueryResult(ok, code, row_count) == [ok |-> ok, code |-> code, row_count |-> row_count]

\* every row of the result is fetched
query_fetches_all(sql, enabled, driver, available_rows) ==
    LET sandbox_config == get_sandbox_config(enabled)
        safety_check == check_sql_safety(sql)
        limited == apply_row_limit(sql, sandbox_config.max_rows, sandbox_config.default_limit)
    IN  IF Strip(sql) = <<>>
        THEN [result |-> QueryResult(FALSE, Some("SANDBOX_EMPTY_SQL"), 0), executed |-> {}]
        ELSE IF sandbox_config.enabled /\ ~safety_check.ok
        THEN [result |-> QueryResult(FALSE, safety_check.code, 0), executed |-> {}]
        ELSE IF driver = "connect_error"
        THEN [result |-> QueryResult(FALSE, None, 0), executed |-> {}]
        ELSE IF driver = "rows"
        THEN [result |-> QueryResult(TRUE, None, available_rows),
              executed |-> {limited.sql}]
        ELSE IF driver = "timeout"
        THEN [result |-> QueryResult(FALSE, Some("SANDBOX_TIMEOUT"), 0),
              executed |-> {limited.sql}]
        ELSE [result |-> QueryResult(FALSE, None, 0), executed |-> {limited.sql}]

\* DatabaseClient.query: the result dict and the statements handed to
\* cursor.execute, for one behaviour of the driver and a number of rows the
\* statement yields; row_count is the length of the list cursor.fetchmany
\* returns (pymysql: the next size rows, arraysize = 1 of them for a size of
\* 0)
query(sql, enabled, driver, available_rows) ==
    LET sandbox_config == get_sandbox_config(enabled)
        safety_check == check_sql_safety(sql)
        limited == apply_row_limit(sql, sandbox_config.max_rows, sandbox_config.default_limit)
        fetch_limit == Min(FetchLimit, Min(sandbox_config.max_rows, limited.effective_limit))
        fetchmany(size) == Min(available_rows, IF size = 0 THEN 1 ELSE size)
    IN  IF Strip(sql) = <<>>
        THEN [result |-> QueryResult(FALSE, Some("SANDBOX_EMPTY_SQL"), 0), executed |-> {}]
        ELSE IF sandbox_config.enabled /\ ~safety_check.ok
        THEN [result |-> QueryResult(FALSE, safety_check.code, 0), executed |-> {}]
        ELSE IF driver = "connect_error"
        THEN [result |-> QueryResult(FALSE, None, 0), executed |-> {}]
        ELSE IF driver = "rows"
        THEN [result |-> QueryResult(TRUE, None, fetchmany(fetch_limit)),
              executed |-> {limited.sql}]
        ELSE IF driver = "timeout"
        THEN [result |-> QueryResult(FALSE, Some("SANDBOX_TIMEOUT"), 0),
              executed |-> {limited.sql}]
        ELSE [result |-> QueryResult(FALSE, None, 0), executed |-> {limited.sql}]

----------------------------------------------------------------------------
(* Context memory (graphs/utils/context_memory.py) *)

Entry(role, content, type) == [role |-> role, content |-> content, type |-> type]

\* the oldest entries are kept
_trim_history_keeps_oldest(history, max_history) ==
    IF Len(history) > max_history
    THEN SubSeq(history, 1, max_history)
    ELSE history

\* ContextMemoryManager._trim_history
_trim_history(history, max_history) ==
    IF Len(history) > max_history
    THEN SubSeq(history, Len(history) - max_history + 1, Len(history))
    ELSE history

\* the end of every add operation: append the entry, trim
append_entry(history, entry, max_history) ==
    _trim_history(Append(history, entry), max_history)

add_query(history, question, max_history) ==
    append_entry(history, Entry("user", question, "query"), max_history)

add_clarification(history, clarification_question, max_history) ==
    append_entry(history, Entry("assistant", clarification_question, "clarification"),
                 max_history)

add_clarification_answer(history, answer, max_history) ==
    append_entry(history, Entry("user", answer, "clarification_answer"), max_history)

add_answer(history, answer, max_history) ==
    append_entry(history, Entry("assistant", answer, "answer"), max_history)

add_chat_response(history, response, max_history) ==
    append_entry(history, Entry("assistant", response, "chat"), max_history)

----------------------------------------------------------------------------
(* The language model: every call returns a text or raises *)

LlmOutcomes(texts) ==
    {[raised |-> TRUE, text |-> <<>>]} \cup {[raised |-> FALSE, text |-> t] : t \in texts}

SelectT == <<"select", " ", "c", " ", "from", " ", "t">>

GenerationTexts ==
    {SelectT,
     SelectT \o <<";", " ", "drop", " ", "t", ";">>,
     SelectT \o <<" ", "into", " ", "--", " ", "limit", "\n", "5", "\n", "outfile", " ", "'f'", ";">>,
     <<>>}

----------------------------------------------------------------------------
(* The nodes (graphs/nodes/*.py) and the decision functions *)

\* run_query's initial_state
InitialState(question, clarification_answer, current_history) ==
    [question |-> question,
     candidate_sql |-> None,
     execution_result |-> None,
     validation_errors |-> None,
     validation_passed |-> None,
     critique |-> None,
     regeneration_count |-> 0,
     max_regenerations |-> MaxRegenerations,
     dialog_history |-> current_history,
     needs_clarification |-> None,
     clarification_question |-> None,
     clarification_answer |-> clarification_answer,
     clarification_count |-> 0,
     max_clarifications |-> MaxClarifications,
     normalized_question |-> None,
     answer |-> None,
     is_chat_response |-> FALSE,
     chat_response |-> None]

\* detect_user_intent: is_chat; a failed call counts as a query
detect_user_intent(intent) == ~intent.raised /\ Contains(intent.text, {"CHAT"})

\* generate_sql_node: [raised, state]; str.format on the template that
\* embeds the critique raises on a brace in it
generate_sql_node(st, intent, chat, gen) ==
    LET critique == Truthy(st.critique)
        extracted == extract_sql_from_response(gen.text)
    IN  IF ~critique /\ detect_user_intent(intent)
        THEN [raised |-> chat.raised,
              state |-> [st EXCEPT !.candidate_sql = None,
                                   !.is_chat_response = TRUE,
                                   !.chat_response = Some(chat.text),
                                   !.regeneration_count = 0,
                                   !.critique = None]]
        ELSE IF critique /\ Contains(st.critique[1], {"{", "}"})
        THEN [raised |-> TRUE, state |-> st]
        ELSE IF gen.raised
        THEN [raised |-> FALSE,
              state |-> [st EXCEPT !.candidate_sql = None,
                                   !.is_chat_response = FALSE,
                                   !.chat_response = None]]
        ELSE IF ~extracted.is_valid_sql
        THEN [raised |-> FALSE,
              state |-> [st EXCEPT !.candidate_sql = None,
                                   !.is_chat_response = TRUE,
                                   !.chat_response = Some(extracted.sql),
                                   !.regeneration_count =
                                       IF critique THEN st.regeneration_count ELSE 0,
                                   !.critique = None]]
        ELSE [raised |-> FALSE,
              state |-> [st EXCEPT !.candidate_sql = Some(extracted.sql),
                                   !.is_chat_response = FALSE,
                                   !.chat_response = None,
                                   !.regeneration_count =
                                       IF critique THEN st.regeneration_count + 1 ELSE 0,
                                   !.critique = None]]

\* the clarification test made before the chat test
should_handle_chat_response_clarify_first(st) ==
    IF check_needs_clarification(st.question).needs_clarification THEN "clarify"
    ELSE IF st.is_chat_response THEN "chat"
    ELSE "continue"

should_handle_chat_response(st) ==
    IF st.is_chat_response THEN "chat"
    ELSE IF check_needs_clarification(st.question).needs_clarification THEN "clarify"
    ELSE "continue"

RECURSIVE LastUserContent(_, _)
\* the content of the last user entry with content, None if there is none
LastUserContent(history, i) ==
    IF i = 0 THEN None
    ELSE IF history[i].role = "user" /\ history[i].content # <<>>
    THEN Some(history[i].content)
    ELSE LastUserContent(history, i - 1)

\* the content of the last user entry, cut by content.split("(")[0] when it
\* holds both parentheses; the question itself without a user entry
original_question(question, dialog_history) ==
    LET last == LastUserContent(dialog_history, Len(dialog_history)) IN
    IF last = None THEN question
    ELSE IF Contains(last[1], {"("}) /\ Contains(last[1], {")"})
    THEN SubSeq(last[1], 1, IndexFrom(last[1], {"("}, 1) - 1)
    ELSE last[1]

\* the maximum test with > for >=
clarification_exhausted_off_by_one(st) == st.clarification_count > st.max_clarifications

\* the budget test left out
clarification_exhausted_never(st) == FALSE

\* clarify_node's test of the clarification budget
clarification_exhausted(st) == st.clarification_count >= st.max_clarifications

\* the answered branch with the stale candidate kept
consume_answer_keeps_candidate(st, mem) ==
    LET normalized_question ==
            original_question(st.question, st.dialog_history)
                \o <<"(">> \o st.clarification_answer[1] \o <<")">>
        updated_history == add_clarification_answer(mem, st.clarification_answer[1], MaxHistory)
    IN  [state |-> [st EXCEPT !.question = normalized_question,
                              !.normalized_question = Some(normalized_question),
                              !.clarification_answer = None,
                              !.clarification_question = None,
                              !.needs_clarification = Some(FALSE),
                              !.dialog_history = updated_history],
         memory |-> updated_history]

\* clarify_node's branch for an answered clarification: [state, memory]
consume_answer(st, mem) ==
    LET normalized_question ==
            original_question(st.question, st.dialog_history)
                \o <<"(">> \o st.clarification_answer[1] \o <<")">>
        updated_history == add_clarification_answer(mem, st.clarification_answer[1], MaxHistory)
    IN  [state |-> [st EXCEPT !.question = normalized_question,
                              !.normalized_question = Some(normalized_question),
                              !.candidate_sql = None,
                              !.clarification_answer = None,
                              !.clarification_question = None,
                              !.needs_clarification = Some(FALSE),
                              !.dialog_history = updated_history],
         memory |-> updated_history]

\* clarify_node: [state, memory]
clarify_node(st, mem, llm) ==
    LET needs_clarification ==
            /\ check_if_needs_clarification(st.question).needs_clarification
            /\ ~clarification_exhausted(st)
        clarification_question == ParseClarificationQuestion(llm.text)
    IN  IF Truthy(st.clarification_answer)
        THEN consume_answer(st, mem)
        ELSE IF ~needs_clarification \/ llm.raised
        THEN [state |-> [st EXCEPT !.needs_clarification = Some(FALSE)], memory |-> mem]
        ELSE [state |-> [st EXCEPT !.needs_clarification = Some(TRUE),
                                   !.clarification_question = Some(clarification_question),
                                   !.clarification_count = st.clarification_count + 1,
                                   !.dialog_history =
                                       add_clarification(mem, clarification_question, MaxHistory)],
              memory |-> add_clarification(mem, clarification_question, MaxHistory)]

\* the clarification test made before the answer test
should_ask_clarification_clarify_first(st) ==
    IF IsTrue(st.needs_clarification) /\ ~Truthy(st.clarification_question)
    THEN "clarify"
    ELSE IF Truthy(st.clarification_answer) THEN "regenerate"
    ELSE "continue"

should_ask_clarification(st) ==
    IF Truthy(st.clarification_answer) THEN "regenerate"
    ELSE IF IsTrue(st.needs_clarification) /\ ~Truthy(st.clarification_question)
    THEN "clarify"
    ELSE "continue"

\* what sqlglot.parse does with a non-empty statement: it raises ParseError,
\* raises another exception (a TokenError), returns no statement, returns a
\* statement carrying errors, or returns a statement; only some statement
\* classes (Create, Drop, Alter) have an attribute kind, and it holds the kind
\* of object ("TABLE"), whereas Select, Insert, Update and Delete have none
SqlglotOutcomes ==
    {[available |-> FALSE, parse |-> "statement", statement |-> "Select", kind |-> None]}
    \cup {[available |-> TRUE, parse |-> p, statement |-> "none", kind |-> None] :
             p \in {"ParseError", "Exception", "empty", "errors"}}
    \cup {[available |-> TRUE, parse |-> "statement", statement |-> k[1], kind |-> k[2]] :
             k \in {<<"Select", None>>, <<"Select", Some(<<"SELECT">>)>>,
                    <<"Delete", None>>, <<"Create", Some(<<"TABLE">>)>>}}

\* the validation_result dictionary validate_sql_node builds
validation_result(candidate_sql, sqlglot) ==
    LET result(valid, errors, warnings, parsed) ==
            [valid |-> valid, errors |-> errors, warnings |-> warnings, parsed |-> parsed]
    IN  IF ~Truthy(candidate_sql)
        THEN result(FALSE, <<"No SQL query provided">>, <<>>, FALSE)
        ELSE IF ~sqlglot.available
        THEN result(TRUE, <<>>, <<"sqlglot not available, validation skipped">>, FALSE)
        ELSE CASE sqlglot.parse = "ParseError" -> result(FALSE, <<"parse_error">>, <<>>, FALSE)
               [] sqlglot.parse = "Exception" ->
                    result(FALSE, <<"Unexpected validation error">>, <<>>, FALSE)
               [] sqlglot.parse = "empty" ->
                    result(FALSE, <<"Failed to parse SQL: Empty result">>, <<>>, FALSE)
               [] sqlglot.parse = "errors" -> result(FALSE, <<"statement_error">>, <<>>, FALSE)
               [] OTHER ->
                    result(TRUE, <<>>,
                           IF sqlglot.kind # None /\ sqlglot.kind # Some(<<"SELECT">>)
                           THEN <<<<"Non-SELECT statement detected:">> \o sqlglot.kind[1]>>
                           ELSE <<>>,
                           TRUE)

\* the errors found are not recorded in the state
validate_sql_node_drops_errors(st, sqlglot) ==
    LET vr == validation_result(st.candidate_sql, sqlglot) IN
    [st EXCEPT !.validation_errors = Some(<<>>),
               !.validation_passed = Some(vr.valid)]

\* validate_sql_node with what sqlglot does with the statement
validate_sql_node(st, sqlglot) ==
    LET vr == validation_result(st.candidate_sql, sqlglot) IN
    [st EXCEPT !.validation_errors = Some(vr.errors),
               !.validation_passed = Some(vr.valid)]

\* the wrapper every node runs under: result is the dictionary the node
\* returned, a shallow copy of the input state, so the _performance_trace list
\* it holds is the input state's own list object (perf; None when the input
\* has no such key) and the entry is appended to that object
monitor_performance(node, result, perf) ==
    LET perf_trace == Append(IF perf = None THEN <<>> ELSE perf[1], node) IN
    [state |-> result,
     _performance_trace |-> perf_trace,
     input_trace |-> IF perf = None THEN None ELSE Some(perf_trace)]

\* the budget test with > for >=
should_retry_sql_off_by_one(st) ==
    IF IsTrue(st.validation_passed) THEN "execute"
    ELSE IF st.regeneration_count > st.max_regenerations THEN "fail"
    ELSE "retry"

\* the budget tested before the validation result
should_retry_sql_budget_first(st) ==
    IF st.regeneration_count >= st.max_regenerations THEN "fail"
    ELSE IF IsTrue(st.validation_passed) THEN "execute"
    ELSE "retry"

should_retry_sql(st) ==
    IF IsTrue(st.validation_passed) THEN "execute"
    ELSE IF st.regeneration_count >= st.max_regenerations THEN "fail"
    ELSE "retry"

\* critique_sql_node; the fallback critique is a heading and the errors
critique_sql_node(st, llm) ==
    [st EXCEPT !.critique =
        IF llm.raised THEN Some(<<"SQL Validation Errors:">> \o st.validation_errors[1])
        ELSE Some(llm.text)]

\* execute_sql_node: [state, executed]
execute_sql_node(st, enabled, driver, available_rows) ==
    LET q == query(st.candidate_sql[1], enabled, driver, available_rows) IN
    IF ~Truthy(st.candidate_sql)
    THEN [state |-> [st EXCEPT !.execution_result =
                         Some(QueryResult(FALSE, Some("SANDBOX_EMPTY_SQL"), 0))],
          executed |-> {}]
    ELSE [state |-> [st EXCEPT !.execution_result = Some(q.result)],
          executed |-> q.executed]

\* answer_builder_node: which of its answers it builds
answer_builder_node(st, llm) ==
    [st EXCEPT !.answer =
        IF st.execution_result = None THEN Some("no_execution_result")
        ELSE IF ~st.execution_result[1].ok THEN Some("execution_failed")
        ELSE IF llm.raised THEN Some("fallback_answer")
        ELSE Some("llm_answer")]

echo_node(st) == st

----------------------------------------------------------------------------
(* build_graph: the edges *)

AfterGenerate(label) ==
    CASE label = "chat" -> "answer_builder"
      [] label = "clarify" -> "clarify"
      [] label = "continue" -> "validate_sql"

AfterClarify(label) ==
    CASE label = "clarify" -> "echo"
      [] label = "regenerate" -> "generate_sql"
      [] label = "continue" -> "validate_sql"

\* a failed execution goes back into the critique loop
AfterExecuteRetriesFailure(st) ==
    IF st.execution_result[1].ok THEN "answer_builder" ELSE "critique_sql"

\* the edge execute_sql -> answer_builder, whatever the execution result
AfterExecute(st) == "answer_builder"

\* the statement is executed once the budget is spent
AfterValidateExecutesOnFail(label) ==
    CASE label = "execute" -> "execute_sql"
      [] label = "retry" -> "critique_sql"
      [] label = "fail" -> "execute_sql"

AfterValidate(label) ==
    CASE label = "execute" -> "execute_sql"
      [] label = "retry" -> "critique_sql"
      [] label = "fail" -> "echo"

----------------------------------------------------------------------------
(* The inputs of run_query *)

QRecent == <<"chaxun", "zuijin", "fapiao">>

Questions == {<<"chaxun", "kehu">>, QRecent, <<"zuijin", "(", "x", ")">>}

Histories ==
    {<<>>,
     <<Entry("user", QRecent, "query")>>,
     <<Entry("assistant", <<"x">>, "clarification"),
       Entry("user", <<"a">>, "clarification_answer")>>,
     <<Entry("user", <<"q", "(", "a", ")">>, "query")>>}

----------------------------------------------------------------------------
(* The state machine *)

Init ==
    /\ pc = "idle"
    /\ state = InitialState(<<>>, None, <<>>)
    /\ memory = <<>>
    /\ sandboxEnabled \in BOOLEAN
    /\ driverCalls = {}
    /\ executions = 0
    /\ routes = {}
    /\ lastErrors = None
    /\ inQuestion = <<>>
    /\ inAnswer = None
    /\ calls = 0
    /\ asked = 0
    /\ added = <<>>
    /\ maxHistory = MaxHistory
    /\ _context_managers = <<>>
    /\ heap = <<>>
    /\ callers = <<>>
    /\ call = None

\* run_query up to graph.invoke: import the caller's history, build the
\* initial state
StartRun(question, answer, history) ==
    LET imported == IF history # <<>>
                    THEN _trim_history(memory \o history, MaxHistory)
                    ELSE memory
    IN  /\ memory' = imported
        /\ state' = InitialState(question, answer, imported)
        /\ inQuestion' = question
        /\ inAnswer' = answer
        /\ pc' = "parse_intent"
        /\ driverCalls' = {}
        /\ executions' = 0
        /\ routes' = {}
        /\ lastErrors' = None
        /\ calls' = calls + 1
        /\ UNCHANGED <<sandboxEnabled, asked, added, maxHistory,
                   _context_managers, heap, callers, call>>

\* the first run_query call of a session
RunQuery ==
    /\ pc = "idle"
    /\ \E question \in Questions, answer \in {None, Some(<<"yue">>), Some(<<"a">>)},
          history \in Histories :
         StartRun(question, answer, history)

\* NL2SQLChat.process_query on a question the user typed: run_query with
\* no clarification answer and the session's history
ProcessQuery ==
    /\ pc = "idle" \/ (pc = "END" /\ ~IsTrue(state.needs_clarification))
    /\ calls < MaxCalls
    /\ \E question \in Questions : StartRun(question, None, memory)

\* NL2SQLChat.process_query after a run that asks for clarification: the
\* user answers and the question is run again with the answer and the
\* session's history, or the user skips and it is run again without either
\* (handle_clarification returns the user's answer, or None for a skip)
AnswerClarification ==
    /\ pc = "END"
    /\ IsTrue(state.needs_clarification)
    /\ calls < MaxCalls
    /\ \E answer \in {None, Some(<<"yue">>)} :
         StartRun(inQuestion, answer, IF Truthy(answer) THEN memory ELSE <<>>)

ParseIntent ==
    /\ pc = "parse_intent"
    /\ pc' = "log"
    /\ UNCHANGED <<state, memory, sandboxEnabled, driverCalls, executions, routes, lastErrors,
                   inQuestion, inAnswer,
                   calls, asked, added, maxHistory,
                   _context_managers, heap, callers, call>>

LogNode ==
    /\ pc = "log"
    /\ pc' = "generate_sql"
    /\ UNCHANGED <<state, memory, sandboxEnabled, driverCalls, executions, routes, lastErrors,
                   inQuestion, inAnswer,
                   calls, asked, added, maxHistory,
                   _context_managers, heap, callers, call>>

\* answers of the intent prompt: CHAT, QUERY, anything else (also empty)
GenerateSql ==
    /\ pc = "generate_sql"
    /\ \E intent \in LlmOutcomes({<<"CHAT">>, <<"QUERY">>}),
          chat \in LlmOutcomes({<<"hello">>}),
          gen \in LlmOutcomes(GenerationTexts) :
         LET r == generate_sql_node(state, intent, chat, gen)
             label == should_handle_chat_response(r.state)
         IN  IF r.raised
             THEN pc' = "RAISED" /\ UNCHANGED <<state, routes>>
             ELSE /\ state' = r.state
                  /\ pc' = AfterGenerate(label)
                  /\ routes' = routes \cup {<<"generate_sql", label>>}
    /\ UNCHANGED <<memory, sandboxEnabled, driverCalls, executions, lastErrors, inQuestion,
                   inAnswer,
                   calls, asked, added, maxHistory,
                   _context_managers, heap, callers, call>>

Clarify ==
    /\ pc = "clarify"
    /\ \E llm \in LlmOutcomes({<<"wenti:", " ", "x", "\n", "xuanxiang:">>,
                               <<"wenti:", " ", "\n">>}) :
         LET r == clarify_node(state, memory, llm)
             label == should_ask_clarification(r.state)
         IN  /\ state' = r.state
             /\ memory' = r.memory
             /\ pc' = AfterClarify(label)
             /\ routes' = routes \cup {<<"clarify", label>>}
             /\ asked' = IF r.state.clarification_count > state.clarification_count
                         THEN Min(asked + 1, MaxClarifications + 1)
                         ELSE asked
    /\ UNCHANGED <<sandboxEnabled, driverCalls, executions, lastErrors, inQuestion, inAnswer,
                   calls, added, maxHistory,
                   _context_managers, heap, callers, call>>

\* sqlglot parses the statement or raises ParseError
ValidateSql ==
    /\ pc = "validate_sql"
    /\ \E sqlglot \in {o \in SqlglotOutcomes :
                          o.available /\ o.parse \in {"statement", "ParseError"}} :
         LET st == validate_sql_node(state, sqlglot)
             label == should_retry_sql(st)
         IN  /\ state' = st
             /\ lastErrors' = Some(validation_result(state.candidate_sql, sqlglot).errors)
             /\ pc' = AfterValidate(label)
             /\ routes' = routes \cup {<<"validate_sql", label>>}
    /\ UNCHANGED <<memory, sandboxEnabled, driverCalls, executions, inQuestion, inAnswer,
                   calls, asked, added, maxHistory,
                   _context_managers, heap, callers, call>>

CritiqueSql ==
    /\ pc = "critique_sql"
    /\ \E llm \in LlmOutcomes({<<"fix">>, <<"{", "fix", "}">>, <<>>}) :
         state' = critique_sql_node(state, llm)
    /\ pc' = "generate_sql"
    /\ UNCHANGED <<memory, sandboxEnabled, driverCalls, executions, routes, lastErrors, inQuestion,
                   inAnswer,
                   calls, asked, added, maxHistory,
                   _context_managers, heap, callers, call>>

\* what the driver may do with a statement: fail to connect, return rows,
\* hit the statement timeout, fail otherwise, raise a non-driver exception
ExecuteSql ==
    /\ pc = "execute_sql"
    /\ \E driver \in {"connect_error", "rows", "timeout", "db_error", "unexpected"},
          available_rows \in {0, 5000} :
         LET r == execute_sql_node(state, sandboxEnabled, driver, available_rows) IN
         /\ state' = r.state
         /\ driverCalls' = driverCalls \cup r.executed
         /\ pc' = AfterExecute(r.state)
    /\ executions' = Min(executions + 1, RunCap)
    /\ UNCHANGED <<memory, sandboxEnabled, routes, lastErrors, inQuestion, inAnswer,
                   calls, asked, added, maxHistory,
                   _context_managers, heap, callers, call>>

AnswerBuilder ==
    /\ pc = "answer_builder"
    /\ \E llm \in LlmOutcomes({<<"answer">>}) :
         state' = answer_builder_node(state, llm)
    /\ pc' = "echo"
    /\ UNCHANGED <<memory, sandboxEnabled, driverCalls, executions, routes, lastErrors, inQuestion,
                   inAnswer,
                   calls, asked, added, maxHistory,
                   _context_managers, heap, callers, call>>

Echo ==
    /\ pc = "echo"
    /\ state' = echo_node(state)
    /\ pc' = "END"
    /\ UNCHANGED <<memory, sandboxEnabled, driverCalls, executions, routes, lastErrors, inQuestion,
                   inAnswer,
                   calls, asked, added, maxHistory,
                   _context_managers, heap, callers, call>>

Next ==
    \/ RunQuery
    \/ ParseIntent
    \/ LogNode
    \/ GenerateSql
    \/ Clarify
    \/ ValidateSql
    \/ CritiqueSql
    \/ ExecuteSql
    \/ AnswerBuilder
    \/ Echo

Spec == Init /\ [][Next]_vars

\* a session of NL2SQLChat: runs of the graph, and process_query running a
\* question again after a clarification
SessionNext ==
    \/ ProcessQuery
    \/ AnswerClarification
    \/ ParseIntent
    \/ LogNode
    \/ GenerateSql
    \/ Clarify
    \/ ValidateSql
    \/ CritiqueSql
    \/ ExecuteSql
    \/ AnswerBuilder
    \/ Echo

SessionSpec == Init /\ [][SessionNext]_vars

\* A ContextMemoryManager on its own: built with some max_history, then
\* used through its add operations
Contents == {<<"a">>, <<"x">>}

ManagerInit ==
    /\ pc = "manager"
    /\ state = InitialState(<<>>, None, <<>>)
    /\ memory = <<>>
    /\ added = <<>>
    /\ maxHistory \in 1..MaxLimit
    /\ sandboxEnabled = TRUE
    /\ driverCalls = {}
    /\ executions = 0
    /\ routes = {}
    /\ lastErrors = None
    /\ inQuestion = <<>>
    /\ inAnswer = None
    /\ calls = 0
    /\ asked = 0
    /\ _context_managers = <<>>
    /\ heap = <<>>
    /\ callers = <<>>
    /\ call = None

\* one add operation: the history it leaves and the entry it was given
Added(history, entry) ==
    /\ pc = "manager"
    /\ Len(added) < MaxAdds
    /\ memory' = history
    /\ added' = Append(added, entry)
    /\ UNCHANGED <<pc, state, sandboxEnabled, driverCalls, executions, routes, lastErrors,
                   inQuestion, inAnswer, calls, asked, maxHistory,
                   _context_managers, heap, callers, call>>

AddQuery ==
    \E c \in Contents :
        Added(add_query(memory, c, maxHistory), Entry("user", c, "query"))

AddClarification ==
    \E c \in Contents :
        Added(add_clarification(memory, c, maxHistory), Entry("assistant", c, "clarification"))

AddClarificationAnswer ==
    \E c \in Contents :
        Added(add_clarification_answer(memory, c, maxHistory),
              Entry("user", c, "clarification_answer"))

AddAnswer ==
    \E c \in Contents :
        Added(add_answer(memory, c, maxHistory), Entry("assistant", c, "answer"))

AddChatResponse ==
    \E c \in Contents :
        Added(add_chat_response(memory, c, maxHistory), Entry("assistant", c, "chat"))

ManagerNext ==
    \/ AddQuery
    \/ AddClarification
    \/ AddClarificationAnswer
    \/ AddAnswer
    \/ AddChatResponse

ManagerSpec == ManagerInit /\ [][ManagerNext]_vars

\* a step of the run from a node, or from the call of run_query, to the next
\* of the positions a run can stand at; every step of Next is one, and one
\* is possible at every position but END and RAISED
Advance ==
    /\ pc \notin {"END", "RAISED"}
    /\ pc' \in {"parse_intent", "log", "generate_sql", "clarify", "validate_sql",
                "critique_sql", "execute_sql", "answer_builder", "echo",
                "idle", "END", "RAISED"} \ {pc}

\* graph.invoke runs the next node as long as there is one
FairSpec == Spec /\ WF_pc(Advance)

----------------------------------------------------------------------------
(* The module-level manager store of context_memory.py under concurrent     *)
(* callers.  A caller's operation is get_context_manager followed by a      *)
(* method of the manager it returned (or clear_context_manager); another    *)
(* caller may run between any two steps of it.  A manager is an object on   *)
(* the heap, the dict and the callers hold references to it (0 is none).    *)

SessionIds == {"A", "B"}

Callers == {"c1", "c2"}

\* the operations the callers perform, all in all
MaxOps == 2

\* the variables of a graph run, which the manager store leaves alone
runVars == <<pc, state, memory, sandboxEnabled, driverCalls, executions, routes,
             lastErrors, inQuestion, inAnswer, calls, asked, added, maxHistory>>

\* whichever manager was stored first is returned for every session id
registered_any(managers, session_id) ==
    LET stored == {managers[s] : s \in SessionIds} \ {0}
    IN  IF stored = {} THEN 0 ELSE CHOOSE r \in stored : \A q \in stored : r <= q

\* _context_managers[session_id]
registered(managers, session_id) == managers[session_id]

\* the history of the manager stored for a session id, None without one
conversation_history(session_id) ==
    IF _context_managers[session_id] = 0
    THEN None
    ELSE Some(heap[_context_managers[session_id]].conversation_history)

\* a caller of a session id between two operations; ops are the operations
\* it has begun
Resting(session_id, ops) ==
    [pc |-> "idle", op |-> "none", session_id |-> session_id, manager |-> 0,
     entries |-> <<>>, slice |-> <<>>, ops |-> ops]

RECURSIVE OpsBegun(_)
OpsBegun(cs) ==
    IF cs = {} THEN 0
    ELSE LET c == CHOOSE x \in cs : TRUE
         IN  Len(callers[c].ops) + OpsBegun(cs \ {c})

RegistryInit ==
    /\ pc = "registry"
    /\ state = InitialState(<<>>, None, <<>>)
    /\ memory = <<>>
    /\ added = <<>>
    /\ maxHistory = MaxHistory
    /\ sandboxEnabled = TRUE
    /\ driverCalls = {}
    /\ executions = 0
    /\ routes = {}
    /\ lastErrors = None
    /\ inQuestion = <<>>
    /\ inAnswer = None
    /\ calls = 0
    /\ asked = 0
    /\ _context_managers = [s \in SessionIds |-> 0]
    /\ heap = <<>>
    /\ \E s \in SessionIds :
         callers = [c \in Callers |-> Resting(IF c = "c1" THEN "A" ELSE s, <<>>)]
    /\ call = None

\* a caller begins an operation for its session id
Begin(c, op, entries, first) ==
    /\ pc = "registry"
    /\ callers[c].pc = "idle"
    /\ OpsBegun(Callers) < MaxOps
    /\ callers' = [callers EXCEPT ![c] =
                     [@ EXCEPT !.pc = first, !.op = op, !.entries = entries,
                               !.ops = Append(@, [op |-> op, entries |-> entries])]]
    /\ UNCHANGED <<_context_managers, heap, runVars, call>>

\* a step of a caller's operation
Step(c, at, next) ==
    /\ pc = "registry"
    /\ callers[c].pc = at
    /\ callers' = [callers EXCEPT ![c] =
                     IF next.pc = "idle"
                     THEN Resting(callers[c].session_id, callers[c].ops)
                     ELSE next]
    /\ UNCHANGED <<runVars, call>>

\* a caller begins an operation: get_context_manager(session_id) followed
\* by one of the five add methods, by run_query's import of the
\* conversation_history handed to it, or by clear_history(); or
\* clear_context_manager(session_id)
BeginOperation ==
    \E c \in Callers :
        \/ \E e \in {Entry("user", <<"a">>, "query"),
                     Entry("assistant", <<"x">>, "clarification"),
                     Entry("user", <<"a">>, "clarification_answer"),
                     Entry("assistant", <<"x">>, "answer"),
                     Entry("assistant", <<"x">>, "chat")} :
              Begin(c, "add", <<e>>, "get_test")
        \/ Begin(c, "import",
                 <<Entry("user", <<"a">>, "query"), Entry("assistant", <<"x">>, "answer")>>,
                 "get_test")
        \/ Begin(c, "clear_history", <<>>, "get_test")
        \/ Begin(c, "clear_context_manager", <<>>, "clear_test")

\* get_context_manager, step by step: the test  session_id not in
\* _context_managers;  the construction of a manager (with one of the
\* max_history arguments) and its storing under session_id;  the return of
\* _context_managers[session_id] (a KeyError, which ends the operation, if
\* the entry has been deleted meanwhile), after which the caller goes on to
\* the method it calls on the manager
GetContextManager ==
    \E c \in Callers :
        \/ /\ Step(c, "get_test",
                   [callers[c] EXCEPT !.pc =
                       IF _context_managers[callers[c].session_id] = 0
                       THEN "get_create" ELSE "get_return"])
           /\ UNCHANGED <<_context_managers, heap>>
        \/ \E max_history \in {1, MaxHistory} :
              /\ Step(c, "get_create", [callers[c] EXCEPT !.pc = "get_return"])
              /\ heap' = Append(heap, [session_id |-> callers[c].session_id,
                                       max_history |-> max_history,
                                       conversation_history |-> <<>>])
              /\ _context_managers' =
                   [_context_managers EXCEPT ![callers[c].session_id] = Len(heap) + 1]
        \/ LET manager == registered(_context_managers, callers[c].session_id)
           IN  /\ Step(c, "get_return",
                       [callers[c] EXCEPT
                           !.manager = manager,
                           !.pc = IF manager = 0 THEN "idle"
                                  ELSE IF callers[c].op = "clear_history"
                                       THEN "clear_history" ELSE "append"])
               /\ UNCHANGED <<_context_managers, heap>>

\* self.conversation_history.append(entry)
HistoryAppend ==
    \E c \in Callers :
        /\ Step(c, "append",
                [callers[c] EXCEPT
                    !.entries = Tail(@),
                    !.pc = IF Len(callers[c].entries) > 1 THEN "append"
                           ELSE "trim_test"])
        /\ heap' = [heap EXCEPT ![callers[c].manager].conversation_history =
                                    Append(@, Head(callers[c].entries))]
        /\ UNCHANGED _context_managers

\* _trim_history, step by step: the length test with the slice of the last
\* max_history entries;  self.conversation_history = the slice
TrimHistory ==
    \E c \in Callers :
        \/ LET manager == heap[callers[c].manager]
               history == manager.conversation_history
           IN  /\ Step(c, "trim_test",
                       IF Len(history) > manager.max_history
                       THEN [callers[c] EXCEPT
                               !.pc = "trim_assign",
                               !.slice = SubSeq(history,
                                                Len(history) - manager.max_history + 1,
                                                Len(history))]
                       ELSE [callers[c] EXCEPT !.pc = "idle"])
               /\ UNCHANGED <<_context_managers, heap>>
        \/ /\ Step(c, "trim_assign", [callers[c] EXCEPT !.pc = "idle"])
           /\ heap' = [heap EXCEPT ![callers[c].manager].conversation_history =
                                       callers[c].slice]
           /\ UNCHANGED _context_managers

\* clear_history: self.conversation_history = []
ClearHistory ==
    \E c \in Callers :
        /\ Step(c, "clear_history", [callers[c] EXCEPT !.pc = "idle"])
        /\ heap' = [heap EXCEPT ![callers[c].manager].conversation_history = <<>>]
        /\ UNCHANGED _context_managers

\* clear_context_manager, step by step: the test  session_id in
\* _context_managers;  del _context_managers[session_id] (a KeyError if the
\* entry has been deleted meanwhile)
ClearContextManager ==
    \E c \in Callers :
        \/ /\ Step(c, "clear_test",
                   [callers[c] EXCEPT !.pc =
                       IF _context_managers[callers[c].session_id] # 0
                       THEN "clear_del" ELSE "idle"])
           /\ UNCHANGED <<_context_managers, heap>>
        \/ /\ Step(c, "clear_del", [callers[c] EXCEPT !.pc = "idle"])
           /\ _context_managers' = [_context_managers EXCEPT ![callers[c].session_id] = 0]
           /\ UNCHANGED heap

RegistryNext ==
    \/ BeginOperation
    \/ GetContextManager
    \/ HistoryAppend
    \/ TrimHistory
    \/ ClearHistory
    \/ ClearContextManager

RegistrySpec == RegistryInit /\ [][RegistryNext]_vars

\* the histories that the add operations of two callers on one manager
\* leave when they run one after the other, in any order of the two callers
RECURSIVE SequentialHistories(_, _, _, _)
SequentialHistories(history, max_history, ops1, ops2) ==
    LET after(op, rest1, rest2) ==
            SequentialHistories(append_entry(history, op.entries[1], max_history),
                                max_history, rest1, rest2)
    IN  IF ops1 = <<>> /\ ops2 = <<>>
        THEN {history}
        ELSE (IF ops1 # <<>> THEN after(Head(ops1), Tail(ops1), ops2) ELSE {})
             \cup (IF ops2 # <<>> THEN after(Head(ops2), ops1, Tail(ops2)) ELSE {})

----------------------------------------------------------------------------
(* The functions of tools/sandbox.py applied on their own to a statement   *)

\* the longest statement, in atoms
MaxSqlLen == 4

\* the texts of at most n atoms over an alphabet
Texts(alphabet, n) == UNION {[1..k -> alphabet] : k \in 0..n}

Applied(fn, args, result) == [fn |-> fn, args |-> args, result |-> result]

SandboxInit ==
    /\ pc = "sandbox"
    /\ state = InitialState(<<>>, None, <<>>)
    /\ memory = <<>>
    /\ added = <<>>
    /\ maxHistory = MaxHistory
    /\ sandboxEnabled = TRUE
    /\ driverCalls = {}
    /\ executions = 0
    /\ routes = {}
    /\ lastErrors = None
    /\ inQuestion = <<>>
    /\ inAnswer = None
    /\ calls = 0
    /\ asked = 0
    /\ _context_managers = <<>>
    /\ heap = <<>>
    /\ callers = <<>>
    /\ \E sql \in Texts({"select", " ", ";", "drop", "--", "/*", "*/", "\n", "limit",
                         "0", "5", "5000"}, MaxSqlLen) :
         call = Applied("none", <<sql>>, None)

CheckSqlSafety ==
    /\ pc = "sandbox"
    /\ call.fn = "none"
    /\ call' = Applied("check_sql_safety", call.args, check_sql_safety(call.args[1]))
    /\ UNCHANGED <<runVars, _context_managers, heap, callers>>

ApplyRowLimit ==
    /\ pc = "sandbox"
    /\ call.fn = "none"
    /\ \E limits \in {<<1000, 200>>, <<50, 200>>, <<1000, 5000>>} :
         call' = Applied("apply_row_limit", <<call.args[1], limits[1], limits[2]>>,
                         apply_row_limit(call.args[1], limits[1], limits[2]))
    /\ UNCHANGED <<runVars, _context_managers, heap, callers>>

SandboxNext ==
    \/ CheckSqlSafety
    \/ ApplyRowLimit

SandboxSpec == SandboxInit /\ [][SandboxNext]_vars

----------------------------------------------------------------------------
(* The schema and the join planner of tools/schema_manager.py.  A schema    *)
(* is the dict load_schema returns: the tables in their order, each with    *)
(* its columns and its recorded foreign keys.  Names are strings; what the  *)
(* code computes from the letters of a name is tabulated for the names of   *)
(* the model.                                                               *)

\* the longest list of tables handed to find_join_path
MaxTables == 3

TableNames == <<"artist", "album", "track", "genres">>

PrimaryKey ==
    [artist |-> "ArtistId", album |-> "AlbumId", track |-> "TrackId", genres |-> "GenreId"]

\* the foreign keys a schema of the model may hold
Links ==
    <<[table |-> "album", column |-> "ArtistId", references_table |-> "artist"],
      [table |-> "track", column |-> "AlbumId", references_table |-> "album"],
      [table |-> "track", column |-> "ArtistId", references_table |-> "artist"],
      [table |-> "track", column |-> "GenreId", references_table |-> "genres"]>>

\* name.lower()
LowerName ==
    [ArtistId |-> "artistid", AlbumId |-> "albumid", TrackId |-> "trackid",
     GenreId |-> "genreid", artist |-> "artist", album |-> "album", track |-> "track",
     genres |-> "genres"]

Range(seq) == {seq[i] : i \in 1..Len(seq)}

\* the dict of schema.json: the tables in order, each with its primary key
\* column, then one column for each foreign key the table holds (kinds says
\* for each of Links whether it is absent, on a NOT NULL column or on a
\* nullable one); the foreign keys are recorded or left out
Schema(kinds, explicit) ==
    LET Table(name) ==
            LET Held(i) == Links[i].table = name /\ kinds[i] # "absent"
                held == SelectSeq(<<1, 2, 3, 4>>, Held)
            IN  [name |-> name,
                 columns |-> <<[name |-> PrimaryKey[name], primary_key |-> TRUE,
                                not_null |-> TRUE]>>
                             \o [k \in 1..Len(held) |->
                                   [name |-> Links[held[k]].column,
                                    primary_key |-> FALSE,
                                    not_null |-> kinds[held[k]] = "not_null"]],
                 foreign_keys |->
                     IF explicit
                     THEN [k \in 1..Len(held) |->
                             [column |-> Links[held[k]].column,
                              references_table |-> Links[held[k]].references_table,
                              references_column |->
                                  PrimaryKey[Links[held[k]].references_table]]]
                     ELSE <<>>]
    IN  [table_list |-> TableNames,
         tables |-> [i \in 1..Len(TableNames) |-> Table(TableNames[i])]]

\* the first table of the schema with the name, as an index; 0 if none
FindTable(schema, name) ==
    LET at == {i \in 1..Len(schema.tables) : schema.tables[i].name = name}
    IN  IF at = {} THEN 0 ELSE CHOOSE i \in at : \A j \in at : i <= j

\* _infer_foreign_keys: a column that is no primary key and is named
\* <Base>Id is a foreign key to the first table, in schema order, that has
\* a primary key and whose name matches the base by one of the four rules
_infer_foreign_keys(schema, table_name) ==
    LET \* col_name.endswith("Id") and len(col_name) > 2
        IdSuffixed == {"ArtistId", "AlbumId", "TrackId", "GenreId"}
        \* col_name[:-2].lower(), after special_mappings
        TableBase == [ArtistId |-> "artist", AlbumId |-> "album", TrackId |-> "track",
                      GenreId |-> "genre"]
        \* table_lower.rstrip('s')
        RStripS == [artist |-> "artist", album |-> "album", track |-> "track",
                    genres |-> "genre"]
        \* the bases holding "rep" and the table names holding "employee"
        RepBases == {}
        EmployeeTables == {}
        current == FindTable(schema, table_name)
        pk(j) == LET keys == SelectSeq(schema.tables[j].columns,
                                       LAMBDA col : col.primary_key)
                 IN  IF keys = <<>> THEN None ELSE Some(keys[1].name)
        matches(j, col) ==
            /\ pk(j) # None
            /\ \/ LowerName[schema.tables[j].name] = TableBase[col.name]
               \/ RStripS[LowerName[schema.tables[j].name]] = TableBase[col.name]
               \/ (TableBase[col.name] \in RepBases
                   /\ LowerName[schema.tables[j].name] \in EmployeeTables)
               \/ LowerName[pk(j)[1]] = LowerName[col.name]
        matched(col) ==
            LET at == {j \in 1..Len(schema.tables) : matches(j, col)}
            IN  IF at = {} THEN 0 ELSE CHOOSE j \in at : \A k \in at : j <= k
        Inferred(col) ==
            ~col.primary_key /\ col.name \in IdSuffixed /\ matched(col) # 0
        cols == IF current = 0 THEN <<>>
                ELSE SelectSeq(schema.tables[current].columns, Inferred)
    IN  [k \in 1..Len(cols) |->
           [column |-> cols[k].name,
            references_table |-> schema.tables[matched(cols[k])].name,
            references_column |-> pk(matched(cols[k]))[1]]]

\* table.get("foreign_keys", []), or the inferred ones if there are none
foreign_keys_of(schema, table) ==
    IF table.foreign_keys # <<>> THEN table.foreign_keys
    ELSE _infer_foreign_keys(schema, table.name)

\* build_relationship_graph: graph[table_name] holds an "out" edge for each
\* foreign key of the table and an "in" edge for each foreign key pointing
\* at it, in the order the loop over the tables and their foreign keys
\* appends them
build_relationship_graph(schema) ==
    LET \* every foreign key of the schema with the table holding it
        RECURSIVE AllForeignKeys(_)
        AllForeignKeys(i) ==
            IF i > Len(schema.tables) THEN <<>>
            ELSE LET fks == foreign_keys_of(schema, schema.tables[i])
                 IN  [k \in 1..Len(fks) |->
                        [table |-> schema.tables[i].name, fk |-> fks[k]]]
                     \o AllForeignKeys(i + 1)
        RECURSIVE EdgesOf(_, _)
        EdgesOf(node, held) ==
            IF held = <<>> THEN <<>>
            ELSE LET h == Head(held)
                 IN  (IF h.table = node
                      THEN <<[table |-> h.fk.references_table, via |-> h.fk.column,
                              references |-> h.fk.references_column,
                              direction |-> "out"]>>
                      ELSE <<>>)
                     \o (IF h.fk.references_table = node
                         THEN <<[table |-> h.table, via |-> h.fk.references_column,
                                 references |-> h.fk.column, direction |-> "in"]>>
                         ELSE <<>>)
                     \o EdgesOf(node, Tail(held))
    IN  [table_name \in {schema.tables[i].name : i \in 1..Len(schema.tables)} |->
            EdgesOf(table_name, AllForeignKeys(1))]

\* bfs_shortest_path of find_join_path
bfs_shortest_path(graph, start, end) ==
    LET \* the for loop over the neighbours of the current table: the path
        \* if the end is among them, else the queue and the visited set
        \* with the new tables
        RECURSIVE Visit(_, _, _, _)
        Visit(neighbors, path, queue, visited) ==
            IF neighbors = <<>>
            THEN [found |-> None, queue |-> queue, visited |-> visited]
            ELSE LET neighbor_table == Head(neighbors).table
                 IN  IF neighbor_table = end
                     THEN [found |-> Some(Append(path, end)), queue |-> queue,
                           visited |-> visited]
                     ELSE IF neighbor_table \notin visited
                     THEN Visit(Tail(neighbors), path,
                                Append(queue, [table |-> neighbor_table,
                                               path |-> Append(path, neighbor_table)]),
                                visited \cup {neighbor_table})
                     ELSE Visit(Tail(neighbors), path, queue, visited)
        \* the while loop
        RECURSIVE Bfs(_, _)
        Bfs(queue, visited) ==
            IF queue = <<>> THEN None
            ELSE LET current == Head(queue)
                     visit == Visit(IF current.table \in DOMAIN graph
                                    THEN graph[current.table] ELSE <<>>,
                                    current.path, Tail(queue), visited)
                 IN  IF visit.found # None THEN visit.found
                     ELSE Bfs(visit.queue, visit.visited)
    IN  IF start = end THEN Some(<<start>>)
        ELSE Bfs(<<[table |-> start, path |-> <<start>>]>>, {start})

\* the condition is written with the foreign key side first when the
\* foreign key is on the second table
_find_join_condition_swapped(schema, table1, table2) ==
    LET fks(name) == IF FindTable(schema, name) = 0 THEN <<>>
                     ELSE foreign_keys_of(schema, schema.tables[FindTable(schema, name)])
        to2 == SelectSeq(fks(table1),
                         LAMBDA fk : LowerName[fk.references_table] = LowerName[table2])
        to1 == SelectSeq(fks(table2),
                         LAMBDA fk : LowerName[fk.references_table] = LowerName[table1])
    IN  IF to2 # <<>>
        THEN Some([condition |-> <<<<table1, to2[1].column>>,
                                   <<table2, to2[1].references_column>>>>,
                   via_column |-> to2[1].column,
                   references_column |-> to2[1].references_column])
        ELSE IF to1 # <<>>
        THEN Some([condition |-> <<<<table2, to1[1].column>>,
                                   <<table1, to1[1].references_column>>>>,
                   via_column |-> to1[1].references_column,
                   references_column |-> to1[1].column])
        ELSE None

\* _find_join_condition: the first foreign key of table1 that points at
\* table2, else the first foreign key of table2 that points at table1; the
\* condition  table1.column = table2.column  is the pair of its two sides
_find_join_condition(schema, table1, table2) ==
    LET fks(name) == IF FindTable(schema, name) = 0 THEN <<>>
                     ELSE foreign_keys_of(schema, schema.tables[FindTable(schema, name)])
        to2 == SelectSeq(fks(table1),
                         LAMBDA fk : LowerName[fk.references_table] = LowerName[table2])
        to1 == SelectSeq(fks(table2),
                         LAMBDA fk : LowerName[fk.references_table] = LowerName[table1])
    IN  IF to2 # <<>>
        THEN Some([condition |-> <<<<table1, to2[1].column>>,
                                   <<table2, to2[1].references_column>>>>,
                   via_column |-> to2[1].column,
                   references_column |-> to2[1].references_column])
        ELSE IF to1 # <<>>
        THEN Some([condition |-> <<<<table1, to1[1].references_column>>,
                                   <<table2, to1[1].column>>>>,
                   via_column |-> to1[1].references_column,
                   references_column |-> to1[1].column])
        ELSE None

\* _determine_join_type: LEFT if a recorded foreign key of table2 that
\* points at table1 is on a column that may be null, else INNER
_determine_join_type(schema, table1, table2) ==
    IF \E i \in 1..Len(schema.tables) :
         /\ schema.tables[i].name = table2
         /\ \E k \in 1..Len(schema.tables[i].foreign_keys) :
              LET fk == schema.tables[i].foreign_keys[k]
                  cols == SelectSeq(schema.tables[i].columns,
                                    LAMBDA col : col.name = fk.column)
              IN  /\ fk.references_table = table1
                  /\ cols # <<>>
                  /\ ~cols[1].not_null
    THEN "LEFT" ELSE "INNER"

\* a target without a path is taken for connected all the same
skip_unreachable_connects(connected_tables, target_table) ==
    Append(connected_tables, target_table)

\* the connected tables after a target without a path (continue)
skip_unreachable(connected_tables, target_table) == connected_tables

\* a path as short as the best one replaces it
better_path_last_on_tie(path, best_path) ==
    path # None /\ (best_path = None \/ Len(path[1]) <= Len(best_path[1]))

\* the test that makes a path the best one so far
better_path(path, best_path) ==
    path # None /\ (best_path = None \/ Len(path[1]) < Len(best_path[1]))

\* find_join_path: join_steps is what it returns, None or the list of join
\* steps; attached records, for every target that got a path, the connected
\* tables it was searched from and the path
find_join_path(schema, tables) ==
    LET \* the loop over the connected tables: the first of the shortest
        \* paths to the target
        RECURSIVE BestPath(_, _, _, _)
        BestPath(graph, connected, target, best) ==
            IF connected = <<>> THEN best
            ELSE LET path == bfs_shortest_path(graph, Head(connected), target)
                 IN  BestPath(graph, Tail(connected), target,
                              IF better_path(path, best) THEN path ELSE best)
        \* the search from the target back to the connected tables, the
        \* path found reversed
        RECURSIVE ReversePath(_, _, _)
        ReversePath(graph, connected, target) ==
            IF connected = <<>> THEN None
            ELSE LET path == bfs_shortest_path(graph, target, Head(connected))
                 IN  IF path # None
                     THEN Some([i \in 1..Len(path[1]) |-> path[1][Len(path[1]) + 1 - i]])
                     ELSE ReversePath(graph, Tail(connected), target)
        \* the join steps along a path, from its i-th table on
        RECURSIVE PathSteps(_, _)
        PathSteps(path, i) ==
            IF i >= Len(path) THEN <<>>
            ELSE LET from_table == path[i]
                     to_table == path[i + 1]
                     join_condition == _find_join_condition(schema, from_table, to_table)
                 IN  (IF join_condition = None THEN <<>>
                      ELSE <<[from_table |-> from_table,
                              join_table |-> to_table,
                              join_type |-> _determine_join_type(schema, from_table, to_table),
                              condition |-> join_condition[1].condition,
                              via_column |-> join_condition[1].via_column,
                              references_column |-> join_condition[1].references_column]>>)
                     \o PathSteps(path, i + 1)
        \* the tables of a path added to the connected tables if missing
        RECURSIVE AddMissing(_, _)
        AddMissing(connected, inner) ==
            IF inner = <<>> THEN connected
            ELSE AddMissing(IF Head(inner) \in Range(connected) THEN connected
                            ELSE Append(connected, Head(inner)),
                            Tail(inner))
        \* the search from the connected tables, else the search back
        OrElse(forward, backward) == IF forward # None THEN forward ELSE backward
        \* the loop over the targets, and its body once best_path is known
        RECURSIVE JoinTargets(_, _, _, _, _)
        RECURSIVE Attach(_, _, _, _, _, _)
        Attach(graph, targets, connected_tables, steps, attached, best_path) ==
            IF best_path = None
            THEN JoinTargets(graph, Tail(targets),
                             skip_unreachable(connected_tables, Head(targets)),
                             steps, attached)
            ELSE JoinTargets(graph, Tail(targets),
                             AddMissing(Append(connected_tables, Head(targets)),
                                        SubSeq(best_path[1], 2, Len(best_path[1]) - 1)),
                             steps \o PathSteps(best_path[1], 1),
                             Append(attached, [target |-> Head(targets),
                                               connected |-> connected_tables,
                                               path |-> best_path[1]]))
        JoinTargets(graph, targets, connected_tables, steps, attached) ==
            IF targets = <<>>
            THEN [join_steps |-> IF steps = <<>> THEN None ELSE Some(steps),
                  attached |-> attached]
            ELSE Attach(graph, targets, connected_tables, steps, attached,
                        OrElse(BestPath(graph, connected_tables, Head(targets), None),
                               ReversePath(graph, connected_tables, Head(targets))))
    IN  IF Len(tables) < 2 THEN [join_steps |-> None, attached |-> <<>>]
        ELSE JoinTargets(build_relationship_graph(schema), Tail(tables), <<Head(tables)>>,
                         <<>>, <<>>)

\* _generate_aliases, kept as col["aliases"] by generate_schema_json
ColumnAliases ==
    [ArtistId |-> {"artistid", "artist_id", "yishujiabianhao"},
     AlbumId |-> {"albumid", "album_id", "zhuanjibianhao"},
     TrackId |-> {"trackid", "track_id", "qumubianhao"},
     GenreId |-> {"genreid", "genre_id", "liupaibianhao"}]

\* search_fields: the columns matching a keyword exactly, by alias, or by
\* a similarity of at least the threshold, best first
search_fields(schema, keyword, threshold) ==
    LET \* SequenceMatcher(None, keyword, column.lower()).ratio(), in
        \* thousandths
        SequenceMatcherRatio ==
            [album |-> [ArtistId |-> 154, AlbumId |-> 833, TrackId |-> 167, GenreId |-> 0],
             artistid |-> [ArtistId |-> 1000, AlbumId |-> 400, TrackId |-> 400,
                           GenreId |-> 400],
             zhuanji |-> [ArtistId |-> 0, AlbumId |-> 0, TrackId |-> 0, GenreId |-> 0],
             genre |-> [ArtistId |-> 154, AlbumId |-> 0, TrackId |-> 167, GenreId |-> 833],
             a |-> [ArtistId |-> 222, AlbumId |-> 250, TrackId |-> 250, GenreId |-> 0]]
        \* the columns of the schema with their tables, in schema order
        RECURSIVE AllColumns(_)
        AllColumns(i) ==
            IF i > Len(schema.tables) THEN <<>>
            ELSE [k \in 1..Len(schema.tables[i].columns) |->
                    [table |-> schema.tables[i].name,
                     column |-> schema.tables[i].columns[k].name]]
                 \o AllColumns(i + 1)
        \* matches.sort(key=match_score, reverse=True): stable, highest
        \* score first
        RECURSIVE SortByScore(_)
        SortByScore(matches) ==
            IF matches = <<>> THEN <<>>
            ELSE LET rest == SortByScore(Tail(matches))
                     before == SelectSeq(rest, LAMBDA m :
                                           m.match_score > Head(matches).match_score)
                     after == SelectSeq(rest, LAMBDA m :
                                          m.match_score <= Head(matches).match_score)
                 IN  before \o <<Head(matches)>> \o after
        score(column) ==
            IF keyword = LowerName[column] THEN 1000
            ELSE IF keyword \in ColumnAliases[column] THEN 950
            ELSE SequenceMatcherRatio[keyword][column]
        scored == [k \in 1..Len(AllColumns(1)) |->
                     [table |-> AllColumns(1)[k].table,
                      column |-> AllColumns(1)[k].column,
                      match_score |-> score(AllColumns(1)[k].column)]]
    IN  SortByScore(SelectSeq(scored, LAMBDA m : m.match_score >= threshold))

\* the set find_relevant_tables collects: tables named in the question by
\* name or alias, tables with a column named in it, and the tables of the
\* three best matches of each keyword
relevant_tables(schema, question) ==
    LET \* len(keyword)
        KeywordLength == [album |-> 5, artistid |-> 8, zhuanji |-> 2, genre |-> 5, a |-> 1]
        \* _generate_table_aliases (the Chinese aliases in pinyin)
        TableAliases ==
            [artist |-> {"artist", "artists", "yishujia", "geshou", "yiren"},
             album |-> {"album", "albums", "zhuanji", "changpian"},
             track |-> {"track", "tracks", "qumu", "gequ", "yingui"},
             genres |-> {"genres", "genre", "liupai", "leixing", "fengge"}]
        \* name in question_lower: the pairs <<name, word>> with  name in
        \* word  for the names and aliases of the schema and the words of
        \* the questions
        Mentioned(name) ==
            \E i \in 1..Len(question) :
                <<name, question[i]>> \in
                    {<<"album", "album">>, <<"artist", "artistid">>,
                     <<"artistid", "artistid">>, <<"genre", "genre">>,
                     <<"zhuanji", "zhuanji">>}
        named == {t \in Range(schema.table_list) :
                    \/ Mentioned(LowerName[t])
                    \/ \E alias \in TableAliases[t] : Mentioned(alias)}
        by_column == {schema.tables[i].name : i \in
                        {j \in 1..Len(schema.tables) :
                            \E k \in 1..Len(schema.tables[j].columns) :
                                LET name == schema.tables[j].columns[k].name
                                IN  \/ Mentioned(LowerName[name])
                                    \/ \E alias \in ColumnAliases[name] :
                                          Mentioned(alias)}}
        best(keyword) == LET matches == search_fields(schema, keyword, 700)
                         IN  {matches[k].table : k \in 1..Min(3, Len(matches))}
        by_keyword == UNION {best(question[i]) :
                               i \in {j \in 1..Len(question) :
                                        KeywordLength[question[j]] >= 2}}
    IN  named \cup by_column \cup by_keyword

\* list(a set): the elements in the order the hash table yields them, which
\* for strings differs from one interpreter process to the next
Orderings(set) ==
    {order \in [1..Cardinality(set) -> set] :
        \A i, j \in 1..Cardinality(set) : order[i] = order[j] => i = j}

SchemaInit ==
    /\ pc = "schema"
    /\ state = InitialState(<<>>, None, <<>>)
    /\ memory = <<>>
    /\ added = <<>>
    /\ maxHistory = MaxHistory
    /\ sandboxEnabled = TRUE
    /\ driverCalls = {}
    /\ executions = 0
    /\ routes = {}
    /\ lastErrors = None
    /\ inQuestion = <<>>
    /\ inAnswer = None
    /\ calls = 0
    /\ asked = 0
    /\ _context_managers = <<>>
    /\ heap = <<>>
    /\ callers = <<>>
    /\ \E kinds \in [1..4 -> {"absent", "not_null", "nullable"}], explicit \in BOOLEAN :
         call = Applied("load_schema", <<>>, Schema(kinds, explicit))

\* find_join_path on a list of at most MaxTables names of tables
FindJoinPath ==
    /\ pc = "schema"
    /\ call.fn = "load_schema"
    /\ \E tables \in Texts(Range(TableNames), MaxTables) :
         call' = Applied("find_join_path", <<call.result, tables>>,
                         find_join_path(call.result, tables).join_steps)
    /\ UNCHANGED <<runVars, _context_managers, heap, callers>>

\* find_relevant_tables on a question ("zhuanji" stands for the two Chinese
\* characters for album), called again and again, each time in a process
\* of its own; the result holds the list returned by the call before, if
\* there was one, and the list returned by this call
FindRelevantTables ==
    /\ pc = "schema"
    /\ \/ /\ call.fn = "load_schema"
          /\ \E question \in {<<>>, <<"album">>, <<"zhuanji", "a">>,
                              <<"artistid", "genre">>} :
               \E order \in Orderings(relevant_tables(call.result, question)) :
                  call' = Applied("find_relevant_tables", <<call.result, question>>,
                                  <<order>>)
       \/ /\ call.fn = "find_relevant_tables"
          /\ \E order \in Orderings(relevant_tables(call.args[1], call.args[2])) :
               call' = Applied("find_relevant_tables", call.args,
                               <<call.result[Len(call.result)], order>>)
    /\ UNCHANGED <<runVars, _context_managers, heap, callers>>

SchemaNext ==
    \/ FindJoinPath
    \/ FindRelevantTables

SchemaSpec == SchemaInit /\ [][SchemaNext]_vars

----------------------------------------------------------------------------
(* Properties *)

\* C1: every run started by run_query comes to an end, whatever the language
\* model returns and whichever of its calls fail: it reaches END, or at the
\* least stops on an exception that escapes a node (checked under FairSpec)
C1_RunReachesEnd == <>(pc \in {"END", "RAISED"})

\* C2: in every reachable state regeneration_count <= max_regenerations
C2_RegenerationBounded == state.regeneration_count <= state.max_regenerations

\* C2 witness: the regeneration budget is used up by a regenerated statement
C2_Witness ==
    /\ state.regeneration_count = state.max_regenerations
    /\ Truthy(state.candidate_sql)
    /\ pc = "validate_sql"

\* C3: in every reachable state clarification_count <= max_clarifications
C3_ClarificationBounded == state.clarification_count <= state.max_clarifications

\* C3 witness: clarify_node runs with the clarification budget used up and
\* the heuristics firing
C3_Witness ==
    /\ pc = "clarify"
    /\ state.clarification_count = state.max_clarifications
    /\ check_if_needs_clarification(state.question).needs_clarification
    /\ ~Truthy(state.clarification_answer)

\* C4: with the sandbox enabled, no statement that check_sql_safety rejects
\* is handed to cursor.execute
C4_NoRejectedSqlExecuted ==
    sandboxEnabled => \A sql \in driverCalls : check_sql_safety(sql).ok

\* C5: execute_sql_node runs at most once in a run, and after it has run
\* only answer_builder and echo run
C5_ExecuteOnceThenAnswer ==
    executions >= 1 => executions = 1 /\ pc \in {"answer_builder", "echo", "END"}

\* C5 witness: the run has ended after an execution that failed
C5_Witness ==
    /\ pc = "END"
    /\ executions = 1
    /\ state.execution_result # None
    /\ ~state.execution_result[1].ok

\* C6: after validate_sql the next node is execute_sql iff validation
\* passed, else echo iff regeneration_count >= max_regenerations, else
\* critique_sql, which is followed by generate_sql
C6_ValidateRouting ==
    [][/\ pc = "validate_sql" =>
            pc' = IF IsTrue(state'.validation_passed) THEN "execute_sql"
                  ELSE IF state'.regeneration_count >= state'.max_regenerations
                  THEN "echo"
                  ELSE "critique_sql"
       /\ pc = "critique_sql" => pc' = "generate_sql"]_vars

\* C6 witness: a run that retried, then failed with the budget used up
C6_Witness ==
    /\ <<"validate_sql", "retry">> \in routes
    /\ <<"validate_sql", "fail">> \in routes
    /\ pc = "END"

\* C7: a run that ends because validation failed with the budget used up
\* ends with validation_passed false, the non-empty errors of the last
\* validated candidate, and no execution
C7_ExhaustionKeepsErrors ==
    (pc = "END" /\ <<"validate_sql", "fail">> \in routes) =>
        /\ state.validation_passed = Some(FALSE)
        /\ state.validation_errors # None
        /\ state.validation_errors[1] # <<>>
        /\ state.validation_errors = lastErrors
        /\ state.execution_result = None
        /\ executions = 0
        /\ driverCalls = {}

\* C7 witness: the run ended on the fail edge after the last regeneration
\* produced no statement
C7_Witness ==
    /\ pc = "END"
    /\ <<"validate_sql", "fail">> \in routes
    /\ state.regeneration_count >= state.max_regenerations

\* C8: whenever clarify_node emits a clarification question, the next node
\* is echo
C8_QuestionSuspendsRun ==
    [][(/\ pc = "clarify"
        /\ IsTrue(state'.needs_clarification)
        /\ Truthy(state'.clarification_question)) => pc' = "echo"]_vars

\* C9: whenever clarify_node runs on a state with a non-empty
\* clarification_answer, the next node is generate_sql
C9_AnswerRegenerates ==
    [][(pc = "clarify" /\ Truthy(state.clarification_answer)) => pc' = "generate_sql"]_vars

\* C10: when a clarification answer A is consumed, normalized_question is
\* Q followed by A in full-width parentheses, Q being the question of this
\* run_query call
C10_NormalizedFromThisQuestion ==
    (Truthy(inAnswer) /\ state.normalized_question # None) =>
        state.normalized_question[1] = inQuestion \o <<"(">> \o inAnswer[1] \o <<")">>

\* C11: clarify_node on a state with a non-empty clarification_answer returns
\* candidate_sql, clarification_answer and clarification_question null,
\* needs_clarification false, question equal to normalized_question, and
\* both counters unchanged
C11_AnswerClearsPending ==
    [][(pc = "clarify" /\ Truthy(state.clarification_answer)) =>
          /\ state'.candidate_sql = None
          /\ state'.clarification_answer = None
          /\ state'.clarification_question = None
          /\ state'.needs_clarification = Some(FALSE)
          /\ state'.normalized_question = Some(state'.question)
          /\ state'.clarification_count = state.clarification_count
          /\ state'.regeneration_count = state.regeneration_count]_vars

\* C11 witness: clarify_node is about to consume an answer with a generated
\* candidate in the state
C11_Witness ==
    /\ pc = "clarify"
    /\ Truthy(state.clarification_answer)
    /\ Truthy(state.candidate_sql)

\* C12: a run_query call given a non-empty clarification_answer that does not
\* end as a chat response ends with normalized_question = question ( answer )
\* and clarification_answer null, whatever the question is
C12_AnswerAlwaysConsumed ==
    (pc = "END" /\ Truthy(inAnswer) /\ ~state.is_chat_response) =>
        /\ state.normalized_question = Some(inQuestion \o <<"(">> \o inAnswer[1] \o <<")">>)
        /\ state.clarification_answer = None

\* C13: over the run_query calls of one session, clarify_node emits at most
\* max_clarifications clarification questions in total
C13_SessionClarificationsBounded == asked <= MaxClarifications

\* C14: with clarification_count >= max_clarifications clarify_node emits no
\* question even if the heuristics fire: it returns the state with
\* needs_clarification false and nothing else changed, whatever the language
\* model would have answered, leaves the context memory alone, and the run
\* goes on to validate_sql
C14_ExhaustedClarificationProceeds ==
    [][(pc = "clarify" /\ state.clarification_count >= state.max_clarifications) =>
          /\ state' = [state EXCEPT !.needs_clarification = Some(FALSE)]
          /\ memory' = memory
          /\ asked' = asked
          /\ pc' = "validate_sql"]_vars

\* C14 witness: the run went on to validate_sql from clarify_node with the
\* budget used up and the heuristics firing on the question
C14_Witness ==
    /\ pc = "validate_sql"
    /\ state.clarification_count >= state.max_clarifications
    /\ state.needs_clarification = Some(FALSE)
    /\ check_if_needs_clarification(state.question).needs_clarification
    /\ state.validation_errors # None

\* C15: once a clarification answer has been consumed in a run, clarify_node
\* emits no further clarification question in that run
C15_NoQuestionAfterAnswer ==
    [][(pc = "clarify" /\ state.normalized_question # None) =>
          /\ state'.clarification_count = state.clarification_count
          /\ ~IsTrue(state'.needs_clarification)]_vars

\* C16: when generate_sql_node returns is_chat_response true the next node
\* is answer_builder, and from then on only echo and END follow, no statement
\* is handed to the driver, candidate_sql stays null and chat_response stays
\* as generate_sql_node returned it
C16_ChatPassthrough ==
    [][/\ (pc = "generate_sql" /\ state'.is_chat_response) =>
            /\ pc' = "answer_builder"
            /\ state'.candidate_sql = None
       /\ state.is_chat_response =>
            /\ pc = "answer_builder" => pc' = "echo"
            /\ pc = "echo" => pc' = "END"
            /\ pc \in {"answer_builder", "echo"}
            /\ state'.is_chat_response
            /\ state'.chat_response = state.chat_response
            /\ state'.candidate_sql = None
            /\ state'.execution_result = None
            /\ driverCalls' = {} /\ executions' = 0]_vars

\* C16 witness: a run ended as a chat response that came from a regeneration,
\* on a question the clarification heuristics fire on
C16_Witness ==
    /\ pc = "END"
    /\ state.is_chat_response
    /\ Truthy(state.chat_response)
    /\ <<"validate_sql", "retry">> \in routes
    /\ check_if_needs_clarification(state.question).needs_clarification

\* C17: whichever calls of the language model fail, no exception escapes the
\* orchestrator
C17_NoExceptionEscapes == pc # "RAISED"

\* C18: a generation attempt that yields no candidate SQL is reported at
\* once: validate_sql is followed by the end of the run, not by critique_sql
C18_NoCandidateNoRetry ==
    [][(pc = "validate_sql" /\ ~Truthy(state.candidate_sql)) => pc' = "echo"]_vars

\* C19: every execution_result with ok false carries a machine-readable
\* code: the SANDBOX_ code of a rejection, the timeout code for a timeout,
\* and some other code for any other failure
C19_FailureCarriesCode ==
    (state.execution_result # None /\ ~state.execution_result[1].ok) =>
        state.execution_result[1].code # None

\* C20: after any sequence of n add operations on a context memory with
\* max_history N >= 1 the history is exactly the last min(n, N) entries
\* added, in insertion order
C20_HistoryIsLastEntries ==
    LET n == Len(added)
        kept == Min(n, maxHistory)
    IN  pc = "manager" => memory = SubSeq(added, n - kept + 1, n)

\* C20 witness: more entries were added than the memory keeps, and it keeps
\* more than one
C20_Witness ==
    /\ pc = "manager"
    /\ maxHistory >= 2
    /\ Len(added) >= maxHistory + 2
    /\ \E i, j \in 1..Len(added) : added[i] # added[j]

\* C21: sessions are isolated: whenever the history stored for a session id
\* changes (or appears, or goes away), the step is one of an operation that
\* a caller performs for that very session id; operations for another
\* session id leave it unchanged, under every interleaving
C21_SessionsIsolated ==
    [][\A b \in SessionIds :
          conversation_history(b)' # conversation_history(b)
          => \E c \in Callers : /\ callers'[c] # callers[c]
                                /\ callers[c].pc # "idle"
                                /\ callers[c].session_id = b]_vars

\* C21 witness: both session ids have a manager with a history of its own,
\* each written by completed operations for that session id
C21_Witness ==
    /\ pc = "registry"
    /\ \A c \in Callers : callers[c].pc = "idle" /\ callers[c].ops # <<>>
    /\ callers["c2"].session_id = "B"
    /\ Truthy(conversation_history("A"))
    /\ Truthy(conversation_history("B"))
    /\ conversation_history("A")[1] # <<>>
    /\ conversation_history("B")[1] # <<>>
    /\ conversation_history("A") # conversation_history("B")

\* C22: two callers that add entries for one session id work on one manager:
\* when both are done, the history stored for the session id is one that
\* their add operations produce when run one after the other in some order,
\* so no added entry is lost (stated for managers of one max_history)
C22_SameSessionSerialized ==
    (/\ pc = "registry"
     /\ \A c \in Callers :
          /\ callers[c].pc = "idle"
          /\ callers[c].session_id = "A"
          /\ callers[c].ops # <<>>
          /\ \A i \in 1..Len(callers[c].ops) : callers[c].ops[i].op = "add"
     /\ \A i \in 1..Len(heap) : heap[i].max_history = heap[1].max_history)
    => /\ Truthy(conversation_history("A"))
       /\ conversation_history("A")[1]
            \in SequentialHistories(<<>>, heap[1].max_history,
                                    callers["c1"].ops, callers["c2"].ops)

\* C23: a run that aborts on an exception leaves the session's context
\* memory as it was before the run started; the run of Spec starts on a
\* new session, whose memory is empty, so the memory is empty again (no
\* imported entry, no clarification entry is left) when the run has aborted
C23_AbortLeavesMemoryUntouched == pc = "RAISED" => memory = <<>>

\* C24: check_sql_safety applies its checks in the order empty, non-SELECT,
\* dangerous pattern, forbidden keyword and returns the code of the first
\* one that fails, and ok with no code iff none fails; a statement that
\* does not start with SELECT and holds a forbidden keyword gets
\* SANDBOX_NON_SELECT, and a SELECT followed by "; drop" gets
\* SANDBOX_DANGEROUS_PATTERN, not SANDBOX_FORBIDDEN_KEYWORD
C24_FirstFailingCheckWins ==
    call # None /\ call.fn = "check_sql_safety" =>
    LET sql == call.args[1]
        clean == CleanSql(sql)
        fails == [code \in {"SANDBOX_EMPTY_SQL", "SANDBOX_NON_SELECT",
                            "SANDBOX_DANGEROUS_PATTERN", "SANDBOX_FORBIDDEN_KEYWORD"} |->
                    CASE code = "SANDBOX_EMPTY_SQL" -> Strip(sql) = <<>>
                      [] code = "SANDBOX_NON_SELECT" ->
                            clean = <<>> \/ Head(clean) # "select"
                      [] code = "SANDBOX_DANGEROUS_PATTERN" -> DangerousPattern(clean)
                      [] OTHER -> ForbiddenKeyword(clean)]
        order == <<"SANDBOX_EMPTY_SQL", "SANDBOX_NON_SELECT",
                   "SANDBOX_DANGEROUS_PATTERN", "SANDBOX_FORBIDDEN_KEYWORD">>
        result == call.result
    IN  /\ result.ok <=> result.code = None
        /\ result.ok <=> \A i \in 1..4 : ~fails[order[i]]
        /\ \A i \in 1..4 :
             result.code = Some(order[i])
             <=> (fails[order[i]] /\ \A j \in 1..(i - 1) : ~fails[order[j]])
        /\ (clean # <<>> /\ Head(clean) # "select" /\ Contains(clean, {"drop"}))
           => result.code = Some("SANDBOX_NON_SELECT")
        /\ (clean # <<>> /\ Head(clean) = "select" /\ StatementThenDml(clean))
           => result.code = Some("SANDBOX_DANGEROUS_PATTERN")

\* C24 witness: check_sql_safety has been applied to a SELECT followed by
\* "; drop", where the pattern check and the keyword check both fail
C24_Witness ==
    /\ call # None /\ call.fn = "check_sql_safety"
    /\ call.args[1] = <<"select", ";", " ", "drop">>
    /\ call.result.code = Some("SANDBOX_DANGEROUS_PATTERN")
    /\ ForbiddenKeyword(CleanSql(call.args[1]))

\* C25: apply_row_limit returns effective_limit <= max_rows; for a statement
\* with "limit n", n >= 0, the rewritten statement carries limit
\* min(n, max_rows) and that is the effective_limit returned; for a
\* statement without one, limit min(default_limit, max_rows) is appended
\* and returned
C25_LimitClamped ==
    call # None /\ call.fn = "apply_row_limit" =>
    LET sql == call.args[1]
        max_rows == call.args[2]
        default_limit == call.args[3]
        result == call.result
        n == extract_limit(sql)
    IN  /\ result.effective_limit <= max_rows
        /\ n # None => /\ result.effective_limit = Min(n[1], max_rows)
                       /\ extract_limit(result.sql) = Some(Min(n[1], max_rows))
        /\ n = None => /\ result.effective_limit = Min(default_limit, max_rows)
                       /\ extract_limit(result.sql) = Some(Min(default_limit, max_rows))

\* C26: for tables T1..Tn (n >= 2) handed over in chain order, each T(i+1)
\* holding a foreign key to the primary key of Ti, find_join_path returns
\* exactly n-1 join steps, the i-th from Ti to T(i+1) on the condition
\* Ti.<primary key> = T(i+1).<foreign key>
C26_ChainJoinedInOrder ==
    call # None /\ call.fn = "find_join_path" =>
    LET schema == call.args[1]
        tables == call.args[2]
        n == Len(tables)
        fks(name) == foreign_keys_of(schema, schema.tables[FindTable(schema, name)])
        chain_keys(i) == SelectSeq(fks(tables[i + 1]),
                                   LAMBDA fk : /\ fk.references_table = tables[i]
                                               /\ fk.references_column = PrimaryKey[tables[i]])
        chain == n >= 2 /\ \A i \in 1..(n - 1) : chain_keys(i) # <<>>
    IN  chain =>
        /\ call.result # None
        /\ Len(call.result[1]) = n - 1
        /\ \A i \in 1..(n - 1) :
             /\ call.result[1][i].from_table = tables[i]
             /\ call.result[1][i].join_table = tables[i + 1]
             /\ call.result[1][i].condition =
                  <<<<tables[i], PrimaryKey[tables[i]]>>,
                    <<tables[i + 1], chain_keys(i)[1].column>>>>

\* C26 as amended: the same, for a chain whose foreign keys are the only
\* foreign keys between the tables handed over
C26_PlainChainJoinedInOrder ==
    call # None /\ call.fn = "find_join_path" =>
    LET schema == call.args[1]
        tables == call.args[2]
        n == Len(tables)
        fks(name) == foreign_keys_of(schema, schema.tables[FindTable(schema, name)])
        chain_keys(i) == SelectSeq(fks(tables[i + 1]),
                                   LAMBDA fk : /\ fk.references_table = tables[i]
                                               /\ fk.references_column = PrimaryKey[tables[i]])
        chain == n >= 2 /\ \A i \in 1..(n - 1) : chain_keys(i) # <<>>
        plain == \A a, b \in 1..n :
                    \A k \in 1..Len(fks(tables[a])) :
                        fks(tables[a])[k].references_table = tables[b] => a = b + 1
    IN  chain /\ plain =>
        /\ call.result # None
        /\ Len(call.result[1]) = n - 1
        /\ \A i \in 1..(n - 1) :
             /\ call.result[1][i].from_table = tables[i]
             /\ call.result[1][i].join_table = tables[i + 1]
             /\ call.result[1][i].condition =
                  <<<<tables[i], PrimaryKey[tables[i]]>>,
                    <<tables[i + 1], chain_keys(i)[1].column>>>>

\* C26 witness: artist, album, track joined in two steps along the chain,
\* track holding no foreign key to artist
C26_Witness ==
    /\ call # None /\ call.fn = "find_join_path"
    /\ call.args[2] = <<"artist", "album", "track">>
    /\ \A k \in 1..Len(foreign_keys_of(call.args[1], call.args[1].tables[3])) :
          foreign_keys_of(call.args[1], call.args[1].tables[3])[k].references_table
            # "artist"
    /\ call.result # None
    /\ Len(call.result[1]) = 2
    /\ call.result[1][2].from_table = "album"
    /\ call.result[1][2].condition = <<<<"album", "AlbumId">>, <<"track", "AlbumId">>>>

\* C27: a requested table without a path to the connected tables (one that
\* no chain of foreign keys, in either direction, links to the first table)
\* is skipped: no join step mentions it, it does not help a later table to
\* connect, and the join steps of the other tables are returned as if it
\* had not been requested; the result is None only without any join step
C27_UnreachableSkipped ==
    call # None /\ call.fn = "find_join_path" /\ Len(call.args[2]) >= 2 =>
    LET schema == call.args[1]
        tables == call.args[2]
        names == Range(TableNames)
        fks(name) == foreign_keys_of(schema, schema.tables[FindTable(schema, name)])
        linked(a, b) == \/ \E k \in 1..Len(fks(a)) : fks(a)[k].references_table = b
                        \/ \E k \in 1..Len(fks(b)) : fks(b)[k].references_table = a
        reachable(t) ==
            \/ t = tables[1]
            \/ linked(tables[1], t)
            \/ \E c \in names : linked(tables[1], c) /\ linked(c, t)
            \/ \E c, d \in names : linked(tables[1], c) /\ linked(c, d) /\ linked(d, t)
        remaining == SelectSeq(tables, reachable)
    IN  /\ call.result = find_join_path(schema, remaining).join_steps
        /\ call.result # Some(<<>>)
        /\ call.result # None =>
             \A i \in 1..Len(call.result[1]) :
                 /\ reachable(call.result[1][i].from_table)
                 /\ reachable(call.result[1][i].join_table)

\* C27 witness: genres, linked to no table, is requested between artist and
\* album, and the one join step from artist to album is returned
C27_Witness ==
    /\ call # None /\ call.fn = "find_join_path"
    /\ call.args[2] = <<"artist", "genres", "album">>
    /\ build_relationship_graph(call.args[1])["genres"] = <<>>
    /\ call.result # None
    /\ Len(call.result[1]) = 1
    /\ call.result[1][1].from_table = "artist"
    /\ call.result[1][1].join_table = "album"

\* C28: every join step gets join_type LEFT when the foreign key column of
\* the table holding the foreign key may be null and INNER otherwise,
\* whichever way the step crosses the foreign key and whether the foreign
\* key is recorded in the schema or inferred
C28_JoinTypeFollowsNullability ==
    call # None /\ call.fn = "find_join_path" /\ call.result # None =>
    LET schema == call.args[1]
        fks(name) == foreign_keys_of(schema, schema.tables[FindTable(schema, name)])
        nullable(name, column) ==
            \E i \in 1..Len(schema.tables[FindTable(schema, name)].columns) :
                /\ schema.tables[FindTable(schema, name)].columns[i].name = column
                /\ ~schema.tables[FindTable(schema, name)].columns[i].not_null
    IN  \A i \in 1..Len(call.result[1]) :
            LET step == call.result[1][i]
                on_join == \E k \in 1..Len(fks(step.join_table)) :
                              /\ fks(step.join_table)[k].references_table = step.from_table
                              /\ fks(step.join_table)[k].column = step.condition[2][2]
            IN  step.join_type =
                  IF (IF on_join THEN nullable(step.join_table, step.condition[2][2])
                      ELSE nullable(step.from_table, step.condition[1][2]))
                  THEN "LEFT" ELSE "INNER"

\* C29: find_relevant_tables returns, for the same question and schema, the
\* same list on every call, and the list is in lexicographic order
C29_RelevantTablesSorted ==
    call # None /\ call.fn = "find_relevant_tables" =>
    LET rank == [album |-> 1, artist |-> 2, genres |-> 3, track |-> 4]
    IN  /\ \A r \in 1..Len(call.result) :
             \A i, j \in 1..Len(call.result[r]) :
                 i < j => rank[call.result[r][i]] < rank[call.result[r][j]]
        /\ \A r, q \in 1..Len(call.result) : call.result[r] = call.result[q]

----------------------------------------------------------------------------
(* check_if_needs_clarification applied to bounded questions               *)

\* the length of the questions the heuristics are applied to
MaxQuestionLen == 2

ClarifyInit ==
    /\ pc = "clarify_check"
    /\ state = InitialState(<<>>, None, <<>>)
    /\ memory = <<>>
    /\ added = <<>>
    /\ maxHistory = MaxHistory
    /\ sandboxEnabled = TRUE
    /\ driverCalls = {}
    /\ executions = 0
    /\ routes = {}
    /\ lastErrors = None
    /\ inQuestion = <<>>
    /\ inAnswer = None
    /\ calls = 0
    /\ asked = 0
    /\ _context_managers = <<>>
    /\ heap = <<>>
    /\ callers = <<>>
    /\ \E question \in Texts(QuestionAtoms, MaxQuestionLen) :
         call = Applied("none", <<question>>, None)

CheckIfNeedsClarification ==
    /\ pc = "clarify_check"
    /\ call.fn = "none"
    /\ call' = Applied("check_if_needs_clarification", call.args,
                       check_if_needs_clarification(call.args[1]))
    /\ UNCHANGED <<runVars, _context_managers, heap, callers>>

ClarifyNext == CheckIfNeedsClarification

ClarifySpec == ClarifyInit /\ [][ClarifyNext]_vars

\* C30: check_if_needs_clarification returns needs_clarification = TRUE iff
\* one of the four heuristics fires; each heuristic gives at most one
\* reason; clarification_type is the tag of the first heuristic that fired
\* in the order time range, aggregation, field, ambiguity and "general" iff
\* none fired; a question with recency language (zuijin) and no explicit
\* time range (yue, zuijin_yige_yue) yields TRUE with type time_range, and
\* with an explicit time range added it has no time-range reason
C30_ClarificationHeuristics ==
    call # None /\ call.fn = "check_if_needs_clarification" =>
    LET question == call.args[1]
        result == call.result
        fired == {t \in {"time_range", "aggregation", "field", "ambiguity"} :
                    \/ t = "time_range" /\ TimeRangeFires(question)
                    \/ t = "aggregation" /\ AggregationFires(question)
                    \/ t = "field" /\ FieldFires(question)
                    \/ t = "ambiguity" /\ AmbiguityFires(question)}
        first == IF "time_range" \in fired THEN "time_range"
                 ELSE IF "aggregation" \in fired THEN "aggregation"
                 ELSE IF "field" \in fired THEN "field"
                 ELSE IF "ambiguity" \in fired THEN "ambiguity"
                 ELSE "general"
        recency == {"zuijin"}
        explicit_range == {"yue", "zuijin_yige_yue"}
    IN  /\ result.needs_clarification <=> fired # {}
        /\ Len(result.reasons) = Cardinality(fired)
        /\ {result.reasons[i] : i \in 1..Len(result.reasons)} = fired
        /\ result.clarification_type = first
        /\ result.clarification_type = "general" <=> fired = {}
        /\ Contains(question, recency) /\ ~Contains(question, explicit_range) =>
             /\ result.needs_clarification
             /\ result.clarification_type = "time_range"
        /\ \A e \in explicit_range :
             \A i \in 1..Len(check_if_needs_clarification(Append(question, e)).reasons) :
               check_if_needs_clarification(Append(question, e)).reasons[i] # "time_range"


----------------------------------------------------------------------------
(* The nodes and the decision functions applied on their own to a state    *)

NodeInit ==
    /\ pc = "node"
    /\ state = InitialState(<<>>, None, <<>>)
    /\ memory = <<>>
    /\ added = <<>>
    /\ maxHistory = MaxHistory
    /\ sandboxEnabled = TRUE
    /\ driverCalls = {}
    /\ executions = 0
    /\ routes = {}
    /\ lastErrors = None
    /\ inQuestion = <<>>
    /\ inAnswer = None
    /\ calls = 0
    /\ asked = 0
    /\ _context_managers = <<>>
    /\ heap = <<>>
    /\ callers = <<>>
    /\ \E clarification_answer \in {None, Some(<<>>), Some(<<"a">>)},
          needs_clarification \in {None, Some(FALSE), Some(TRUE)},
          clarification_question \in {None, Some(<<>>), Some(<<"x">>)},
          candidate_sql \in {None, Some(<<>>), Some(SelectT), Some(<<"drop", " ", "t">>)}
                            \cup {Some(SelectT \o <<" ", "limit", " ", n>>) :
                                     n \in {"0", "5", "5000"}},
          critique \in {None, Some(<<"fix">>), Some(<<"{", "fix", "}">>)},
          validation_errors \in {None, Some(<<"parse_error">>)},
          regeneration_count \in {0, 1},
          execution_result \in {None, Some(QueryResult(TRUE, None, 5)),
                                Some(QueryResult(FALSE, Some("DB_ERROR"), 0))},
          perf \in {None, Some(<<"generate_sql_node">>)} :
         call = Applied("none",
                        <<[InitialState(QRecent, clarification_answer, <<>>) EXCEPT
                             !.needs_clarification = needs_clarification,
                             !.clarification_question = clarification_question,
                             !.candidate_sql = candidate_sql,
                             !.critique = critique,
                             !.validation_errors = validation_errors,
                             !.validation_passed =
                                 IF validation_errors = None THEN None ELSE Some(FALSE),
                             !.regeneration_count = regeneration_count,
                             !.execution_result = execution_result],
                          perf>>,
                        None)

ShouldAskClarification ==
    /\ pc = "node"
    /\ call.fn = "none"
    /\ call' = Applied("should_ask_clarification", call.args,
                       should_ask_clarification(call.args[1]))
    /\ UNCHANGED <<runVars, _context_managers, heap, callers>>

ValidateSqlNode ==
    /\ pc = "node"
    /\ call.fn = "none"
    /\ \E sqlglot \in SqlglotOutcomes :
         call' = Applied("validate_sql_node", Append(call.args, sqlglot),
                         monitor_performance("validate_sql_node",
                                             validate_sql_node(call.args[1], sqlglot),
                                             call.args[2]))
    /\ UNCHANGED <<runVars, _context_managers, heap, callers>>

\* critique_sql_node runs on the state validate_sql_node returned
CritiqueSqlNode ==
    /\ pc = "node"
    /\ call.fn = "none"
    /\ call.args[1].validation_errors # None
    /\ \E llm \in LlmOutcomes({<<"fix">>}) :
         call' = Applied("critique_sql_node", Append(call.args, llm),
                         monitor_performance("critique_sql_node",
                                             critique_sql_node(call.args[1], llm),
                                             call.args[2]))
    /\ UNCHANGED <<runVars, _context_managers, heap, callers>>

ExecuteSqlNode ==
    /\ pc = "node"
    /\ call.fn = "none"
    /\ \E driver \in {"rows", "db_error"} :
         call' = Applied("execute_sql_node", Append(call.args, driver),
                         monitor_performance(
                             "execute_sql_node",
                             execute_sql_node(call.args[1], TRUE, driver, 5).state,
                             call.args[2]))
    /\ UNCHANGED <<runVars, _context_managers, heap, callers>>

AnswerBuilderNode ==
    /\ pc = "node"
    /\ call.fn = "none"
    /\ \E llm \in LlmOutcomes({<<"answer">>}) :
         call' = Applied("answer_builder_node", Append(call.args, llm),
                         monitor_performance("answer_builder_node",
                                             answer_builder_node(call.args[1], llm),
                                             call.args[2]))
    /\ UNCHANGED <<runVars, _context_managers, heap, callers>>

\* DatabaseClient.query on the statement of the state, the sandbox enabled
\* or not, the driver returning the rows the statement yields or failing
Query ==
    /\ pc = "node"
    /\ call.fn = "none"
    /\ call.args[1].candidate_sql # None
    /\ \E enabled \in BOOLEAN,
          outcome \in {<<"rows", 0>>, <<"rows", 3>>, <<"rows", 150>>, <<"rows", 5000>>,
                       <<"db_error", 0>>} :
         call' = Applied("query",
                         <<call.args[1].candidate_sql[1], enabled, outcome[1], outcome[2]>>,
                         query(call.args[1].candidate_sql[1], enabled, outcome[1],
                               outcome[2]).result)
    /\ UNCHANGED <<runVars, _context_managers, heap, callers>>

NodeNext ==
    \/ ShouldAskClarification
    \/ Query
    \/ ValidateSqlNode
    \/ CritiqueSqlNode
    \/ ExecuteSqlNode
    \/ AnswerBuilderNode

NodeSpec == NodeInit /\ [][NodeNext]_vars

\* C31: should_ask_clarification returns "regenerate" iff the state's
\* clarification_answer is a non-empty text; otherwise "clarify" iff
\* needs_clarification is true and there is no clarification_question (none
\* or an empty one); otherwise "continue"
C31_ShouldAskClarification ==
    call # None /\ call.fn = "should_ask_clarification" =>
    LET st == call.args[1]
        answered == st.clarification_answer \notin {None, Some(<<>>)}
        unasked == /\ st.needs_clarification = Some(TRUE)
                   /\ st.clarification_question \in {None, Some(<<>>)}
    IN  /\ call.result = "regenerate" <=> answered
        /\ call.result = "clarify" <=> ~answered /\ unasked
        /\ call.result = "continue" <=> ~answered /\ ~unasked

\* a state with an answer that also needs clarification and has no question
\* goes to regenerate
C31_Witness ==
    /\ call # None /\ call.fn = "should_ask_clarification"
    /\ call.args[1].clarification_answer = Some(<<"a">>)
    /\ call.args[1].needs_clarification = Some(TRUE)
    /\ call.args[1].clarification_question = None
    /\ call.result = "regenerate"


\* C32: every traversal of the edge critique_sql -> generate_sql (a step of
\* generate_sql on a state that holds a critique) that does not end as a
\* chat response increases regeneration_count by exactly 1
C32_LoopBackIncrements ==
    [][(/\ pc = "generate_sql"
        /\ state.critique # None
        /\ pc' # "RAISED"
        /\ ~state'.is_chat_response)
       => state'.regeneration_count = state.regeneration_count + 1]_vars


\* C33: after every execution of generate_sql_node that returns a state, the
\* critique field of that state is null, whichever exit path was taken
C33_CritiqueCleared ==
    [][(pc = "generate_sql" /\ pc' # "RAISED") => state'.critique = None]_vars

\* C34: validate_sql_node, critique_sql_node, execute_sql_node and
\* answer_builder_node each return a state that differs from the input at most
\* in the node's own output fields (question, candidate_sql,
\* regeneration_count, clarification_count and the clarification fields are
\* unchanged), and the input state object is left as it was
C34_NodesFrame ==
    (call # None /\ call.fn \in {"validate_sql_node", "critique_sql_node",
                                  "execute_sql_node", "answer_builder_node"}) =>
    LET input == call.args[1]
        own == CASE call.fn = "validate_sql_node" -> {"validation_errors", "validation_passed"}
                 [] call.fn = "critique_sql_node" -> {"critique"}
                 [] call.fn = "execute_sql_node" -> {"execution_result"}
                 [] OTHER -> {"answer"}
    IN  /\ \A f \in DOMAIN input \ own : call.result.state[f] = input[f]
        /\ call.result.input_trace = call.args[2]

\* C35: validate_sql_node returns validation_passed = false exactly when
\* validation_errors is non-empty, and a statement that parses but is not a
\* SELECT yields validation_passed = true with a warning and no error
C35_ValidationPassed ==
    (call # None /\ call.fn = "validate_sql_node") =>
    LET out == call.result.state
        sqlglot == call.args[3]
        vr == validation_result(call.args[1].candidate_sql, sqlglot)
    IN  /\ out.validation_passed = Some(FALSE) <=> out.validation_errors # Some(<<>>)
        /\ out.validation_passed \in {Some(FALSE), Some(TRUE)}
        /\ ( /\ Truthy(call.args[1].candidate_sql)
             /\ sqlglot.available
             /\ sqlglot.parse = "statement"
             /\ sqlglot.statement # "Select" ) =>
               /\ out.validation_passed = Some(TRUE)
               /\ out.validation_errors = Some(<<>>)
               /\ vr.warnings # <<>>


----------------------------------------------------------------------------
(* SchemaManager.load_schema and generate_schema_json as calls on a stack  *)

MaxDepth == 7

\* a database is the list of its tables, each one with explicit foreign key
\* constraints (TRUE) or without any (FALSE); the manager starts with or
\* without a cached schema and a schema file, and the caller calls
\* load_schema or generate_schema_json (an explicit refresh)
LoadInit ==
    /\ pc = "load"
    /\ state = InitialState(<<>>, None, <<>>)
    /\ memory = <<>>
    /\ added = <<>>
    /\ maxHistory = MaxHistory
    /\ sandboxEnabled = TRUE
    /\ driverCalls = {}
    /\ executions = 0
    /\ routes = {}
    /\ lastErrors = None
    /\ inQuestion = <<>>
    /\ inAnswer = None
    /\ calls = 0
    /\ asked = 0
    /\ _context_managers = <<>>
    /\ heap = <<>>
    /\ callers = <<>>
    /\ \E database \in Texts(BOOLEAN, MaxTables),
          cached \in BOOLEAN, persisted \in BOOLEAN,
          entry \in {"load_schema", "generate_schema_json"} :
         call = Applied(entry,
                        <<database,
                          IF cached THEN Some("cached") ELSE None,
                          IF persisted THEN Some("persisted") ELSE None>>,
                        [_schema_cache |-> IF cached THEN Some("cached") ELSE None,
                         schema_file |-> IF persisted THEN Some("persisted") ELSE None,
                         stack |-> <<[fn |-> entry, i |-> 1]>>,
                         outcome |-> None])

\* the frame on top returns: the frames under it that only return its value
\* (load_schema returning generate_schema_json()) return with it
Return(r, value) ==
    LET RECURSIVE Unwind(_)
        Unwind(stack) ==
            IF stack # <<>> /\ stack[Len(stack)].fn = "load_schema"
                            /\ stack[Len(stack)].i = 2
            THEN Unwind(SubSeq(stack, 1, Len(stack) - 1))
            ELSE stack
        rest == Unwind(SubSeq(r.stack, 1, Len(r.stack) - 1))
    IN  [r EXCEPT !.stack = rest,
                  !.outcome = IF rest = <<>> THEN Some(value) ELSE None]

\* a call: the interpreter raises RecursionError when the stack is full, and
\* no frame of these functions catches it
Push(r, frames) ==
    IF Len(r.stack) + Len(frames) > MaxDepth
    THEN [r EXCEPT !.stack = <<>>, !.outcome = Some("RecursionError")]
    ELSE [r EXCEPT !.stack = r.stack \o frames]

LoadSchema ==
    /\ pc = "load"
    /\ call.result.stack # <<>>
    /\ LET r == call.result
           top == r.stack[Len(r.stack)]
       IN  /\ top.fn = "load_schema"
           /\ top.i = 1
           /\ call' = [call EXCEPT !.result =
                  IF r._schema_cache # None THEN Return(r, r._schema_cache[1])
                  ELSE IF r.schema_file # None
                  THEN Return([r EXCEPT !._schema_cache = r.schema_file], r.schema_file[1])
                  ELSE Push([r EXCEPT !.stack[Len(r.stack)].i = 2],
                            <<[fn |-> "generate_schema_json", i |-> 1]>>)]
    /\ UNCHANGED <<runVars, _context_managers, heap, callers>>

\* one turn of the loop over the tables (_get_foreign_keys: an empty list of
\* constraints makes it call _infer_foreign_keys, which starts by calling
\* load_schema), or, after the last table, the file written and the cache set
GenerateSchemaJson ==
    /\ pc = "load"
    /\ call.result.stack # <<>>
    /\ LET r == call.result
           database == call.args[1]
           top == r.stack[Len(r.stack)]
       IN  /\ top.fn = "generate_schema_json"
           /\ call' = [call EXCEPT !.result =
                  IF top.i > Len(database)
                  THEN Return([r EXCEPT !.schema_file = Some("generated"),
                                        !._schema_cache = Some("generated")],
                              "generated")
                  ELSE IF database[top.i]
                  THEN [r EXCEPT !.stack[Len(r.stack)].i = top.i + 1]
                  ELSE Push(r, <<[fn |-> "_infer_foreign_keys", i |-> top.i],
                                 [fn |-> "load_schema", i |-> 1]>>)]
    /\ UNCHANGED <<runVars, _context_managers, heap, callers>>

\* _infer_foreign_keys once its load_schema has returned: it returns the keys
\* to _get_foreign_keys and the loop goes to the next table
InferForeignKeys ==
    /\ pc = "load"
    /\ call.result.stack # <<>>
    /\ LET r == call.result
           top == r.stack[Len(r.stack)]
       IN  /\ top.fn = "_infer_foreign_keys"
           /\ call' = [call EXCEPT !.result =
                  [r EXCEPT !.stack = [SubSeq(r.stack, 1, Len(r.stack) - 1) EXCEPT
                                         ![Len(r.stack) - 1].i = top.i + 1]]]
    /\ UNCHANGED <<runVars, _context_managers, heap, callers>>

LoadNext ==
    \/ LoadSchema
    \/ GenerateSchemaJson
    \/ InferForeignKeys

LoadSpec == LoadInit /\ [][LoadNext]_vars

\* C36: with no cached schema and no schema file, load_schema regenerates the
\* schema from the database and returns it, whatever the database, tables
\* without explicit foreign keys included
C36_LoadSchemaRegenerates ==
    ( /\ pc = "load"
      /\ call.fn = "load_schema"
      /\ call.args[2] = None /\ call.args[3] = None
      /\ call.result.stack = <<>> ) =>
        /\ call.result.outcome = Some("generated")
        /\ call.result._schema_cache = Some("generated")
        /\ call.result.schema_file = Some("generated")


\* C37: find_join_path attaches each requested table by a path of the
\* relationship graph with the fewest edges among the paths from any table
\* connected so far, and among the connected tables at that distance it
\* starts from the one connected first
C37_MinimumEdgePath ==
    (call # None /\ call.fn = "find_join_path" /\ Len(call.args[2]) >= 2) =>
    LET schema == call.args[1]
        attached == find_join_path(schema, call.args[2]).attached
        \* the number of edges of a shortest path to the target from the
        \* tables reached with n edges, -1 if there is none
        RECURSIVE Distance(_, _, _, _)
        Distance(graph, reached, target, n) ==
            LET next == reached \cup
                        UNION {{graph[t][k].table : k \in 1..Len(graph[t])} :
                                 t \in reached \cap DOMAIN graph}
            IN  IF target \in reached THEN n
                ELSE IF next = reached THEN -1
                ELSE Distance(graph, next, target, n + 1)
        edges(graph, a, i) == Distance(graph, {a.connected[i]}, a.target, 0)
        InGraph(graph, path) ==
            \A k \in 1..(Len(path) - 1) :
              /\ path[k] \in DOMAIN graph
              /\ \E e \in 1..Len(graph[path[k]]) : graph[path[k]][e].table = path[k + 1]
    IN  \A i \in 1..Len(attached) :
          LET a == attached[i]
              graph == build_relationship_graph(schema)
              length == Len(a.path) - 1
          IN  /\ a.path[Len(a.path)] = a.target
              /\ InGraph(graph, a.path)
              /\ \E j \in 1..Len(a.connected) :
                    /\ a.path[1] = a.connected[j]
                    /\ edges(graph, a, j) = length
                    /\ \A k \in 1..(j - 1) : edges(graph, a, k) # length
              /\ \A j \in 1..Len(a.connected) :
                    edges(graph, a, j) = -1 \/ edges(graph, a, j) >= length

\* a target two connected tables reach with one edge each, after a target
\* that took a path of two edges
C37_Witness ==
    /\ call # None /\ call.fn = "find_join_path" /\ Len(call.args[2]) >= 3
    /\ LET attached == find_join_path(call.args[1], call.args[2]).attached IN
       /\ Len(attached) = 2
       /\ Len(attached[1].path) = 3
       /\ Len(attached[2].path) = 2
       /\ attached[2].path[1] = attached[2].connected[1]
       /\ \E j \in 2..Len(attached[2].connected) :
            bfs_shortest_path(build_relationship_graph(call.args[1]),
                              attached[2].connected[j], attached[2].target)
              \in {Some(<<attached[2].connected[j], attached[2].target>>)}


\* C38: whenever execute_sql_node is about to run in the graph,
\* validation_passed is true, candidate_sql is a non-empty text and
\* is_chat_response is false, so the node never takes its branch for a
\* missing statement ("No SQL query provided")
C38_ExecuteOnlyValidated ==
    pc = "execute_sql" =>
        /\ state.validation_passed = Some(TRUE)
        /\ state.candidate_sql # None /\ state.candidate_sql[1] # <<>>
        /\ ~state.is_chat_response

\* execute_sql is reached in a run that went through a regeneration
C38_Witness ==
    /\ pc = "execute_sql"
    /\ state.regeneration_count >= 1
    /\ state.validation_passed = Some(TRUE)


\* C39: importing the caller's history is idempotent: a run_query call that
\* is handed the session's own current history, as process_query does,
\* leaves the session's history as it was, without a second copy of its
\* entries
C39_ImportIdempotent ==
    [][(pc \in {"idle", "END"} /\ pc' = "parse_intent") => memory' = memory]_vars


====
